---- MODULE Spec2Model ----
(***************************************************************************)
(* A model of the document core of go-centrifuge: the CoreDocument         *)
(* envelope (documents/coredocument.go), its read/transition rules, NFT    *)
(* bindings and version lineage.  Byte slices are modelled as tagged       *)
(* tuples: the first element names how the bytes were produced (a random   *)
(* draw, a sha256 digest, a merkle root ...), so that two slices are equal *)
(* exactly when they were produced the same way from equal inputs.         *)
(***************************************************************************)
EXTENDS Integers, Sequences, FiniteSets, TLC

VARIABLES
    p,          \* the model being worked on; p.CoreDocument is its current version
    old,        \* the version p.CoreDocument was derived from
    v0,         \* the first version of the document, as it was created
    n,          \* number of versions of the document made so far (0: none yet)
    last,       \* the last call made and what it returned
    repo,       \* the local store of a node: the models it saved, by version
    eth,        \* the identity factory contract, the transactions of the node
                \* and the CreateIdentity calls that are running
    anchors     \* the anchor registry and the processor call that waits for it

vars == <<p, old, v0, n, last, repo, eth, anchors>>

----------------------------------------------------------------------------
(* Bounds of the model *)

MaxVersions == 3    \* versions in one chain v0, v1, ...
NumDIDs == 2        \* distinct identities that can be named as collaborators
MaxSigs == 1        \* signatures appended to one version
MaxRootVersions == 2 \* versions in a chain whose roots are computed step by step
NumRegistries == 2  \* distinct NFT registries
MaxNFTRoles == 1    \* roles added to one version by direct addNFTToReadRules calls
MaxStored == 3      \* versions of one document written to the store directly
NumCreators == 2    \* CreateIdentity calls that can run at the same time
MaxTx == 3          \* identity transactions the node starts in all

(* Program constants *)

idSize == 32
nftByteCount == 52
didSize == 20

----------------------------------------------------------------------------
(* Byte slices *)

Nil == <<>>

\* utils.RandomSlice(32).  Every draw is a fresh value: it is named by the
\* place that asked for it (version number and purpose), which no two draws share
RandomSlice(tag) == <<"rnd", tag>>

\* sha256 of a slice
Sha256(b) == <<"sha256", b>>

\* a slice cut to 31 bytes (a malformed root delivered by a peer)
Truncate31(b) == <<"cut31", b>>

\* the 20 bytes of the identity number d
DIDBytes(d) == <<"did", d>>

\* len(b)
ByteLen(b) ==
    IF b = Nil THEN 0
    ELSE IF b[1] = "cut31" THEN 31
    ELSE IF b[1] = "did" \/ b[1] = "registry" THEN didSize
    ELSE IF b[1] = "nft" THEN nftByteCount
    ELSE IF b[1] = "token34" THEN 34
    ELSE idSize

----------------------------------------------------------------------------
(* Identities and their string form *)

DIDs == { DIDBytes(d) : d \in 1..NumDIDs }

\* a hex address string naming identity d, written in the given letter case
AddrString(d, case) == <<"addr", d, case>>
BadString == <<"randomCentID">>

\* identity.NewDIDFromString: hex decoding ignores the letter case;
\* a string that is no hex address is an error
IsHexAddress(s) == s # BadString
NewDIDFromString(s) == DIDBytes(s[2])

\* DID.String(): the checksummed (mixed case) hex form
DIDString(id) == AddrString(id[2], "mixed")

\* strings.ToLower
ToLower(s) == IF s = BadString THEN s ELSE AddrString(s[2], "lower")

\* identity.NewDIDsFromStrings
NewDIDsFromStrings(strs) ==
    IF \E k \in 1..Len(strs) : ~IsHexAddress(strs[k])
    THEN [err |-> "malformed address provided", ids |-> <<>>]
    ELSE [err |-> "", ids |-> [k \in 1..Len(strs) |-> NewDIDFromString(strs[k])]]

----------------------------------------------------------------------------
(* The CoreDocument protobuf *)

READ == "ACTION_READ"
READ_SIGN == "ACTION_READ_SIGN"

CDTreePrefix == "cd_tree"
SigningTreePrefix == "signing_tree"
SignaturesTreePrefix == "signatures_tree"
DRTreePrefix == "dr_tree"

\* purchaseorder.compactPrefix()
compactPrefix == <<"compact", 0, 2, 0, 0>>

\* documenttypes.PurchaseOrderDataTypeUrl
PurchaseOrderDataTypeUrl == "purchaseorder.PurchaseOrderData"

\* the zero value of coredocumentpb.CoreDocument
EmptyDoc ==
    [ DocumentIdentifier |-> Nil, PreviousVersion |-> Nil,
      CurrentVersion |-> Nil, CurrentPreimage |-> Nil,
      NextVersion |-> Nil, NextPreimage |-> Nil,
      PreviousRoot |-> Nil, DataRoot |-> Nil,
      SigningRoot |-> Nil, DocumentRoot |-> Nil,
      Roles |-> <<>>, ReadRules |-> <<>>, TransitionRules |-> <<>>,
      Nfts |-> <<>>, AccessTokens |-> <<>>,
      Signatures |-> <<>>,
      Author |-> Nil, Timestamp |-> Nil,
      CoredocumentSalts |-> Nil, SignatureDataSalts |-> Nil,
      EmbeddedData |-> Nil, EmbeddedDataSalts |-> Nil ]

\* crypto.GenerateHashPair(idSize): a random preimage and its sha256
GenerateHashPair(tag) ==
    [preimage |-> RandomSlice(tag), hash |-> Sha256(RandomSlice(tag))]

\* populateVersions with the previous version copied from the wrong field of
\* prevCD
populateVersions_WrongPrevious(cd, hasPrev, prevCD, k) ==
    IF hasPrev
    THEN [cd EXCEPT !.PreviousVersion = prevCD.PreviousVersion,
                    !.CurrentVersion = prevCD.NextVersion,
                    !.CurrentPreimage = prevCD.NextPreimage,
                    !.NextPreimage = GenerateHashPair(<<k, "next">>).preimage,
                    !.NextVersion = GenerateHashPair(<<k, "next">>).hash]
    ELSE [cd EXCEPT !.CurrentPreimage = GenerateHashPair(<<k, "current">>).preimage,
                    !.CurrentVersion = GenerateHashPair(<<k, "current">>).hash,
                    !.DocumentIdentifier = GenerateHashPair(<<k, "current">>).hash,
                    !.NextPreimage = GenerateHashPair(<<k, "next">>).preimage,
                    !.NextVersion = GenerateHashPair(<<k, "next">>).hash]

\* populateVersions with the current preimage taken from prevCD's current
\* preimage, not its next one
populateVersions_StalePreimage(cd, hasPrev, prevCD, k) ==
    IF hasPrev
    THEN [cd EXCEPT !.PreviousVersion = prevCD.CurrentVersion,
                    !.CurrentVersion = prevCD.NextVersion,
                    !.CurrentPreimage = prevCD.CurrentPreimage,
                    !.NextPreimage = GenerateHashPair(<<k, "next">>).preimage,
                    !.NextVersion = GenerateHashPair(<<k, "next">>).hash]
    ELSE [cd EXCEPT !.CurrentPreimage = GenerateHashPair(<<k, "current">>).preimage,
                    !.CurrentVersion = GenerateHashPair(<<k, "current">>).hash,
                    !.DocumentIdentifier = GenerateHashPair(<<k, "current">>).hash,
                    !.NextPreimage = GenerateHashPair(<<k, "next">>).preimage,
                    !.NextVersion = GenerateHashPair(<<k, "next">>).hash]

\* populateVersions(cd, prevCD) for version number k; prevCD is nil when
\* hasPrev is FALSE
populateVersions(cd, hasPrev, prevCD, k) ==
    IF hasPrev
    THEN [cd EXCEPT !.PreviousVersion = prevCD.CurrentVersion,
                    !.CurrentVersion = prevCD.NextVersion,
                    !.CurrentPreimage = prevCD.NextPreimage,
                    !.NextPreimage = GenerateHashPair(<<k, "next">>).preimage,
                    !.NextVersion = GenerateHashPair(<<k, "next">>).hash]
    ELSE [cd EXCEPT !.CurrentPreimage = GenerateHashPair(<<k, "current">>).preimage,
                    !.CurrentVersion = GenerateHashPair(<<k, "current">>).hash,
                    !.DocumentIdentifier = GenerateHashPair(<<k, "current">>).hash,
                    !.NextPreimage = GenerateHashPair(<<k, "next">>).preimage,
                    !.NextVersion = GenerateHashPair(<<k, "next">>).hash]

\* newCoreDocument()
newCoreDocument(k) == populateVersions(EmptyDoc, FALSE, EmptyDoc, k)

\* newRole(): a role with a random key
newRole(tag) == [RoleKey |-> RandomSlice(tag), Collaborators |-> <<>>, Nfts |-> <<>>]

\* names the draw for the key of the next role added to version k
roleTag(cd, k) == <<k, "role", Len(cd.Roles) + 1>>

\* newRoleWithCollaborators: the new role, or nil (the empty sequence here)
\* when no collaborator is given
newRoleWithCollaborators(collaborators, tag) ==
    IF Len(collaborators) = 0
    THEN <<>>
    ELSE << [newRole(tag) EXCEPT !.Collaborators = collaborators] >>

\* the number of leaves AddLeavesFromDocument finds in the envelope: one for
\* each of its eight plain fields and one for each entry of its lists
cdLeafCount(cd) ==
    8 + Len(cd.Roles) + Len(cd.ReadRules) + Len(cd.TransitionRules)
      + Len(cd.Nfts) + Len(cd.AccessTokens)

\* GenerateNewSalts(document, prefix, compactPrefix): the k-th draw of salts,
\* one for each of the count leaves of the document
GenerateNewSalts(prefix, k, count) == <<"salts", prefix, k, count>>

\* the number of salts in a list of salts
saltsCount(salts) == IF salts = Nil THEN 0 ELSE salts[4]

\* setSalts(): no-op when the salts exist, else fresh salts
setSalts(cd, k) ==
    IF cd.CoredocumentSalts # Nil
    THEN cd
    ELSE [cd EXCEPT !.CoredocumentSalts =
                        GenerateNewSalts(CDTreePrefix, k, cdLeafCount(cd))]

----------------------------------------------------------------------------
(* Read and transition rules *)

RECURSIVE Flatten(_)
Flatten(ss) == IF ss = <<>> THEN <<>> ELSE Head(ss) \o Flatten(Tail(ss))

Range(f) == { f[x] : x \in DOMAIN f }

\* getRole: the first role with the given key, nil (empty) when there is none
getRole(key, roles) ==
    LET hits == SelectSeq(roles, LAMBDA role : role.RoleKey = key)
    IN  IF hits = <<>> THEN <<>> ELSE << hits[1] >>

\* addNewReadRule(roleKey, action)
addNewReadRule(cd, roleKey, action) ==
    [cd EXCEPT !.ReadRules = Append(@, [Roles |-> <<roleKey>>, Action |-> action])]

\* addCollaboratorsToReadSignRules: one new role holding the collaborators
\* and one READ_SIGN rule naming it; nothing for an empty list
addCollaboratorsToReadSignRules(cd, collaborators, k) ==
    LET role == newRoleWithCollaborators(collaborators, roleTag(cd, k))
    IN  IF role = <<>>
        THEN cd
        ELSE addNewReadRule([cd EXCEPT !.Roles = @ \o role],
                            role[1].RoleKey, READ_SIGN)

\* initReadRules: no-op when roles and read rules exist already
initReadRules(cd, collaborators, k) ==
    IF Len(cd.Roles) > 0 /\ Len(cd.ReadRules) > 0
    THEN cd
    ELSE addCollaboratorsToReadSignRules(cd, collaborators, k)

PREFIX == "FIELD_MATCH_TYPE_PREFIX"
EXACT == "FIELD_MATCH_TYPE_EXACT"
EDIT == "TRANSITION_ACTION_EDIT"

\* addCollaboratorsToTransitionRules: a transition rule for the role the
\* collaborators were just placed under.  Its field prefix is the empty one,
\* which every leaf matches: the rule permits every change, to the body
\* under documentPrefix and to the envelope
addCollaboratorsToTransitionRules(cd, collaborators, documentPrefix) ==
    IF Len(collaborators) = 0 \/ cd.Roles = <<>>
    THEN cd
    ELSE [cd EXCEPT !.TransitionRules =
            Append(@, [Roles |-> << cd.Roles[Len(cd.Roles)].RoleKey >>,
                       MatchType |-> PREFIX,
                       Field |-> Nil,
                       Action |-> EDIT])]

\* initTransitionRules: no-op when roles and transition rules exist already
initTransitionRules(cd, collaborators, documentPrefix) ==
    IF Len(cd.Roles) > 0 /\ Len(cd.TransitionRules) > 0
    THEN cd
    ELSE addCollaboratorsToTransitionRules(cd, collaborators, documentPrefix)

\* the collaborators of the roles named by one read rule (findRole's walk
\* over rule.Roles; a key without a role is skipped)
ruleCollaborators(cd, rule) ==
    Flatten([j \in 1..Len(rule.Roles) |->
        LET role == getRole(rule.Roles[j], cd.Roles)
        IN  IF role = <<>> THEN <<>> ELSE role[1].Collaborators])

\* getCollaborators(actions...)
getCollaborators(cd, actions) ==
    Flatten([i \in 1..Len(cd.ReadRules) |->
        IF cd.ReadRules[i].Action \in actions
        THEN ruleCollaborators(cd, cd.ReadRules[i])
        ELSE <<>>])

\* filterCollaborators with the filter keyed by the checksummed strings, which
\* the lower-case lookups never match
filterCollaborators_CaseSensitive(cs, filterIDs) ==
    LET filter == { DIDString(c) : c \in Range(filterIDs) }
    IN  SelectSeq(cs, LAMBDA id : ToLower(DIDString(id)) \notin filter)

\* filterCollaborators(cs, filterIDs...)
filterCollaborators(cs, filterIDs) ==
    LET filter == { ToLower(DIDString(c)) : c \in Range(filterIDs) }
    IN  SelectSeq(cs, LAMBDA id : ToLower(DIDString(id)) \notin filter)

\* GetCollaborators(): READ_SIGN and READ collaborators
GetCollaborators(cd) ==
    filterCollaborators(getCollaborators(cd, {READ_SIGN, READ}), <<>>)

\* GetSignerCollaborators(filterIDs...)
GetSignerCollaborators(cd, filterIDs) ==
    filterCollaborators(getCollaborators(cd, {READ_SIGN}), filterIDs)

\* AccountCanRead(account)
AccountCanRead(cd, account) ==
    \E i \in 1..Len(cd.ReadRules) :
        /\ cd.ReadRules[i].Action \in {READ, READ_SIGN}
        /\ account \in Range(ruleCollaborators(cd, cd.ReadRules[i]))

----------------------------------------------------------------------------
(* Versions *)

\* NewCoreDocumentWithCollaborators without the call of initReadRules
NewCoreDocumentWithCollaborators_NoReadRules(collaborators, documentPrefix, k) ==
    LET cd == newCoreDocument(k)
        ids == NewDIDsFromStrings(collaborators)
        cd2 == initTransitionRules(cd, ids.ids, documentPrefix)
    IN  IF ids.err # ""
        THEN [err |-> "failed to decode collaborators", doc |-> EmptyDoc]
        ELSE [err |-> "", doc |-> setSalts(cd2, k)]

\* NewCoreDocumentWithCollaborators(collaborators, documentPrefix)
NewCoreDocumentWithCollaborators(collaborators, documentPrefix, k) ==
    LET cd == newCoreDocument(k)
        ids == NewDIDsFromStrings(collaborators)
        cd1 == initReadRules(cd, ids.ids, k)
        cd2 == initTransitionRules(cd1, ids.ids, documentPrefix)
    IN  IF ids.err # ""
        THEN [err |-> "failed to decode collaborators", doc |-> EmptyDoc]
        ELSE [err |-> "", doc |-> setSalts(cd2, k)]

\* cdp with the signatures of cd carried over
cdp_WithSignatures(cd) ==
    [EmptyDoc EXCEPT
        !.DocumentIdentifier = cd.DocumentIdentifier,
        !.PreviousRoot = cd.DocumentRoot,
        !.Roles = cd.Roles,
        !.ReadRules = cd.ReadRules,
        !.TransitionRules = cd.TransitionRules,
        !.Nfts = cd.Nfts,
        !.AccessTokens = cd.AccessTokens,
        !.Signatures = cd.Signatures]

\* cdp without the roles of cd
cdp_WithoutRoles(cd) ==
    [EmptyDoc EXCEPT
        !.DocumentIdentifier = cd.DocumentIdentifier,
        !.PreviousRoot = cd.DocumentRoot,
        !.ReadRules = cd.ReadRules,
        !.TransitionRules = cd.TransitionRules,
        !.Nfts = cd.Nfts,
        !.AccessTokens = cd.AccessTokens]

\* cdp without the NFTs of cd
cdp_WithoutNfts(cd) ==
    [EmptyDoc EXCEPT
        !.DocumentIdentifier = cd.DocumentIdentifier,
        !.PreviousRoot = cd.DocumentRoot,
        !.Roles = cd.Roles,
        !.ReadRules = cd.ReadRules,
        !.TransitionRules = cd.TransitionRules,
        !.AccessTokens = cd.AccessTokens]

\* the protobuf cdp that PrepareNewVersion starts the new version from: the
\* fields of cd it carries forward, and fresh (empty) signature data
cdp(cd) ==
    [EmptyDoc EXCEPT
        !.DocumentIdentifier = cd.DocumentIdentifier,
        !.PreviousRoot = cd.DocumentRoot,
        !.Roles = cd.Roles,
        !.ReadRules = cd.ReadRules,
        !.TransitionRules = cd.TransitionRules,
        !.Nfts = cd.Nfts,
        !.AccessTokens = cd.AccessTokens]

\* PrepareNewVersion with the root only checked for presence, not for length
PrepareNewVersion_RootPresentOnly(cd, collaborators, initSalts, documentPrefix, k) ==
    LET cs == NewDIDsFromStrings(collaborators)
        oldCs == GetCollaborators(cd)
        ucs == filterCollaborators(cs.ids, oldCs)
        ncd0 == populateVersions(cdp(cd), TRUE, cd, k)
        ncd1 == addCollaboratorsToReadSignRules(ncd0, ucs, k)
        ncd2 == addCollaboratorsToTransitionRules(ncd1, ucs, documentPrefix)
    IN  IF cd.DocumentRoot = Nil
        THEN [err |-> "Document root is invalid", doc |-> EmptyDoc]
        ELSE IF cs.err # ""
        THEN [err |-> cs.err, doc |-> EmptyDoc]
        ELSE IF ~initSalts
        THEN [err |-> "", doc |-> ncd2]
        ELSE [err |-> "", doc |-> setSalts(ncd2, k)]

\* CoreDocument.PrepareNewVersion(collaborators, initSalts, documentPrefix);
\* k is the number of the version being made
PrepareNewVersion(cd, collaborators, initSalts, documentPrefix, k) ==
    LET cs == NewDIDsFromStrings(collaborators)
        oldCs == GetCollaborators(cd)
        ucs == filterCollaborators(cs.ids, oldCs)
        ncd0 == populateVersions(cdp(cd), TRUE, cd, k)
        ncd1 == addCollaboratorsToReadSignRules(ncd0, ucs, k)
        ncd2 == addCollaboratorsToTransitionRules(ncd1, ucs, documentPrefix)
    IN  IF ByteLen(cd.DocumentRoot) # idSize
        THEN [err |-> "Document root is invalid", doc |-> EmptyDoc]
        ELSE IF cs.err # ""
        THEN [err |-> cs.err, doc |-> EmptyDoc]
        ELSE IF ~initSalts
        THEN [err |-> "", doc |-> ncd2]
        ELSE [err |-> "", doc |-> setSalts(ncd2, k)]

----------------------------------------------------------------------------
(* Roots *)

\* the hash of two sibling nodes of a tree with hash sorting: the two are
\* put in byte order before they are hashed, so the hash is that of the
\* unordered pair
HashPair(a, b) == Sha256(<<"pair", {a, b}>>)

\* the hash of the leaf at position i of a tree: property, value and salt
LeafHash(prefix, i, value, salts) == Sha256(<<"leaf", prefix, i, value, salts>>)

\* the leaf hashes of a tree over the given values; the leaves of the
\* signing_tree and of the dr_tree are added with Hashed: true and are their
\* own hashes
LeafHashes(prefix, values, salts) ==
    IF prefix \in { SigningTreePrefix, DRTreePrefix }
    THEN values
    ELSE [i \in 1..Len(values) |-> LeafHash(prefix, i, values[i], salts)]

\* the nodes one level above the nodes hs: pairs are hashed, a node without
\* a sibling moves up as it is
RECURSIVE nextLevel(_)
nextLevel(hs) ==
    IF Len(hs) <= 1
    THEN hs
    ELSE << HashPair(hs[1], hs[2]) >> \o nextLevel(SubSeq(hs, 3, Len(hs)))

\* the root of the merkle tree over the leaf hashes hs
RECURSIVE MerkleRoot(_)
MerkleRoot(hs) ==
    IF Len(hs) = 0 THEN Sha256(Nil)
    ELSE IF Len(hs) = 1 THEN hs[1]
    ELSE MerkleRoot(nextLevel(hs))

\* the sibling hashes on the way from leaf i to the root, leaf level first
RECURSIVE MerkleProof(_, _)
MerkleProof(hs, i) ==
    IF Len(hs) <= 1
    THEN <<>>
    ELSE LET sibling == IF i % 2 = 1 THEN i + 1 ELSE i - 1
         IN  (IF sibling <= Len(hs) THEN << hs[sibling] >> ELSE <<>>)
               \o MerkleProof(nextLevel(hs), (i + 1) \div 2)

\* the root hash of the hash-sorted merkle tree with the given prefix, leaf
\* values and salts
RootHash(prefix, values, salts) == MerkleRoot(LeafHashes(prefix, values, salts))

\* the envelope fields that are leaves of the cd_tree
CDLeaves(cd) ==
    << cd.DocumentIdentifier, cd.PreviousVersion, cd.CurrentVersion,
       cd.NextVersion, cd.CurrentPreimage, cd.PreviousRoot,
       cd.Roles, cd.ReadRules, cd.TransitionRules, cd.Nfts, cd.AccessTokens,
       cd.Author, cd.Timestamp >>

\* documentTree(docType).RootHash(): the coredoc root
documentTree(cd, docType) ==
    RootHash(CDTreePrefix, Append(CDLeaves(cd), docType), cd.CoredocumentSalts)

\* signingRootTree(docType): data root and coredoc root, both already hashed
signingRootTree(cd, docType) ==
    IF ByteLen(cd.DataRoot) # idSize
    THEN [err |-> "data root is invalid", root |-> Nil]
    ELSE [err |-> "",
          root |-> RootHash(SigningTreePrefix,
                            <<cd.DataRoot, documentTree(cd, docType)>>, Nil)]

\* the leaf values of the repeated field signatures: signer id and signature
\* of every entry, in the order of the list
signatureDataLeaves(signs) ==
    [j \in 1..(2 * Len(signs)) |->
        IF j % 2 = 1 THEN signs[(j + 1) \div 2].SignerId ELSE signs[j \div 2].Signature]

\* setSignatureDataSalts(): generated on first use, then kept
setSignatureDataSalts(cd, k) ==
    IF cd.SignatureDataSalts = Nil
    THEN [cd EXCEPT !.SignatureDataSalts =
                        GenerateNewSalts(SignaturesTreePrefix, k,
                                         Len(signatureDataLeaves(cd.Signatures)))]
    ELSE cd

\* getSignatureDataTree().RootHash(), on a document whose signature salts
\* are set
getSignatureDataTree(cd) ==
    RootHash(SignaturesTreePrefix, signatureDataLeaves(cd.Signatures),
             cd.SignatureDataSalts)

\* DocumentRootTree(): the root over (signing root, signatures root), both
\* already hashed; the document comes back with its signature salts set
DocumentRootTree(cd, k) ==
    IF ByteLen(cd.SigningRoot) # idSize
    THEN [err |-> "signing root is invalid", root |-> Nil, doc |-> cd]
    ELSE LET cd1 == setSignatureDataSalts(cd, k)
         IN  [err |-> "",
              root |-> RootHash(DRTreePrefix,
                                <<cd.SigningRoot, getSignatureDataTree(cd1)>>, Nil),
              doc |-> cd1]

\* CalculateDocumentRoot()
CalculateDocumentRoot(cd, k) ==
    LET tree == DocumentRootTree(cd, k)
    IN  IF tree.err # ""
        THEN [err |-> tree.err, doc |-> cd]
        ELSE [err |-> "", doc |-> [tree.doc EXCEPT !.DocumentRoot = tree.root]]

\* CalculateSigningRoot that builds the tree over whatever the data root is
CalculateSigningRoot_AnyDataRoot(cd, docType) ==
    [err |-> "",
     doc |-> [cd EXCEPT !.SigningRoot =
                 RootHash(SigningTreePrefix,
                          <<cd.DataRoot, documentTree(cd, docType)>>, Nil)]]

\* CalculateSigningRoot(docType)
CalculateSigningRoot(cd, docType) ==
    LET tree == signingRootTree(cd, docType)
    IN  IF tree.err # ""
        THEN [err |-> tree.err, doc |-> cd]
        ELSE [err |-> "", doc |-> [cd EXCEPT !.SigningRoot = tree.root]]

\* SetDataRoot(dr)
SetDataRoot(cd, dr) == [cd EXCEPT !.DataRoot = dr]

\* AppendSignatures that drops the signing root, as a change of the signed
\* fields would
AppendSignatures_DropsSigningRoot(cd, signs) ==
    [cd EXCEPT !.Signatures = @ \o signs, !.SigningRoot = Nil]

\* AppendSignatures(signs...)
AppendSignatures(cd, signs) == [cd EXCEPT !.Signatures = @ \o signs]

\* AddUpdateLog(account): the author and the time of the update
AddUpdateLog(cd, account, now) == [cd EXCEPT !.Author = account, !.Timestamp = now]

\* PackCoreDocument(data, salts): a copy of the protobuf with the body embedded
PackCoreDocument(cd, data, salts) ==
    [cd EXCEPT !.EmbeddedData = data, !.EmbeddedDataSalts = salts]

\* NewCoreDocumentFromProtobuf(cd): the protobuf without the embedded body
NewCoreDocumentFromProtobuf(cd) ==
    [cd EXCEPT !.EmbeddedDataSalts = Nil, !.EmbeddedData = Nil]

----------------------------------------------------------------------------
(* The purchase order body *)

\* the PurchaseOrder struct before anything is set in it
NoModel == [CoreDocument |-> EmptyDoc, PoNumber |-> "", PurchaseOrderSalts |-> Nil]

\* initPurchaseOrderFromData(data): the body fields are taken from data
initPurchaseOrderFromData(po, data) == [po EXCEPT !.PoNumber = data.PoNumber]

\* createP2PProtobuf(): the body fields as a PurchaseOrderData message
createP2PProtobuf(po) == [PoNumber |-> po.PoNumber]

\* loadFromP2PProtobuf(data): the body fields are taken from the message
loadFromP2PProtobuf(po, data) == [po EXCEPT !.PoNumber = data.PoNumber]

\* getPurchaseOrderSalts(data): the salts of the body, generated when the
\* model has none and then kept; tag names the draw
getPurchaseOrderSalts(po, tag) ==
    IF po.PurchaseOrderSalts = Nil
    THEN [po EXCEPT !.PurchaseOrderSalts =
                        GenerateNewSalts("po", tag, Len(<< po.PoNumber >>))]
    ELSE po

----------------------------------------------------------------------------
(* NFTs and access tokens *)

\* the 20-byte address of registry n, and the 32-byte token id n
RegistryAddr(x) == <<"registry", x>>
TokenID(x) == <<"token", x>>

\* utils.RandomSlice(34): a token id of the wrong length
Token34 == <<"token34", 0>>

\* registry.Bytes() followed by 12 zero bytes
PadRegistry(registry) == <<"padded", registry>>

\* RegistryId[:20]
First20(registryId) == registryId[2]

\* getStoredNFT(nfts, registry): index of the entry bound to the registry, 0 if none
getStoredNFT(nfts, registry) ==
    LET hits == { k \in 1..Len(nfts) : First20(nfts[k].RegistryId) = registry }
    IN  IF hits = {} THEN 0 ELSE CHOOSE k \in hits : \A m \in hits : k <= m

\* ConstructNFT that takes a token id of any length
ConstructNFT_AnyLength(registry, tokenID) ==
    [err |-> "", nft |-> <<"nft", registry, tokenID>>]

\* ConstructNFT(registry, tokenID): registry bytes followed by the token id
ConstructNFT(registry, tokenID) ==
    IF ByteLen(tokenID) # idSize
    THEN [err |-> "invalid NFT token", nft |-> Nil]
    ELSE [err |-> "", nft |-> <<"nft", registry, tokenID>>]

\* addNFTToReadRules(registry, tokenID)
addNFTToReadRules(cd, registry, tokenID, k) ==
    LET c == ConstructNFT(registry, tokenID)
        role == [newRole(roleTag(cd, k)) EXCEPT !.Nfts = << c.nft >>]
        cd1 == addNewReadRule([cd EXCEPT !.Roles = Append(@, role)],
                              role.RoleKey, READ)
    IN  IF c.err # ""
        THEN [err |-> c.err, doc |-> cd]
        ELSE [err |-> "", doc |-> setSalts(cd1, k)]

\* CoreDocument.AddNFT(grantReadAccess, registry, tokenID)
CoreDocumentAddNFT(cd, grantReadAccess, registry, tokenID, k) ==
    LET nv == PrepareNewVersion(cd, <<>>, FALSE, Nil, k)
        ncd == nv.doc
        at == getStoredNFT(ncd.Nfts, registry)
        ncd1 == IF at = 0
                THEN [ncd EXCEPT !.Nfts = Append(@,
                        [RegistryId |-> PadRegistry(registry), TokenId |-> tokenID])]
                ELSE [ncd EXCEPT !.Nfts[at].TokenId = tokenID]
        rr == addNFTToReadRules(ncd1, registry, tokenID, k)
        ncd2 == IF grantReadAccess THEN rr.doc ELSE ncd1
    IN  IF nv.err # ""
        THEN [err |-> "failed to prepare new version", doc |-> EmptyDoc]
        ELSE IF grantReadAccess /\ rr.err # ""
        THEN [err |-> rr.err, doc |-> EmptyDoc]
        ELSE [err |-> "", doc |-> setSalts(ncd2, k)]

\* PurchaseOrder.AddNFT passing true for grantReadAccess whatever it was given
PurchaseOrderAddNFT_AlwaysGrants(po, grantReadAccess, registry, tokenID, k) ==
    LET res == CoreDocumentAddNFT(po.CoreDocument, TRUE, registry, tokenID, k)
    IN  IF res.err # ""
        THEN [err |-> res.err, p |-> po]
        ELSE [err |-> "", p |-> [po EXCEPT !.CoreDocument = res.doc]]

\* PurchaseOrder.AddNFT: p.CoreDocument is replaced by the new version on
\* success and left alone on error
PurchaseOrderAddNFT(po, grantReadAccess, registry, tokenID, k) ==
    LET res == CoreDocumentAddNFT(po.CoreDocument, grantReadAccess, registry, tokenID, k)
    IN  IF res.err # ""
        THEN [err |-> res.err, p |-> po]
        ELSE [err |-> "", p |-> [po EXCEPT !.CoreDocument = res.doc]]

\* PurchaseOrder.PrepareNewVersion(old, data, collaborators): the new model
\* holds the body given by data, and its CoreDocument is old's next version,
\* with salts
PurchaseOrderPrepareNewVersion(oldModel, data, collaborators, k) ==
    LET res == PrepareNewVersion(oldModel.CoreDocument, collaborators, TRUE,
                                 compactPrefix, k)
    IN  [err |-> res.err,
         p |-> [initPurchaseOrderFromData(NoModel, data)
                   EXCEPT !.CoreDocument = res.doc]]

\* CoreDocument.AddAccessToken(ctx, payload): a new version carrying one more
\* access token, granted by the account of ctx to payload.Grantee
AddAccessToken(cd, granter, grantee, k) ==
    LET nv == PrepareNewVersion(cd, <<>>, FALSE, Nil, k)
        at == [Identifier |-> RandomSlice(<<k, "token">>),
               Granter |-> granter,
               Grantee |-> NewDIDFromString(grantee),
               DocumentIdentifier |-> cd.DocumentIdentifier]
    IN  IF nv.err # ""
        THEN [err |-> "failed to prepare new version", doc |-> EmptyDoc]
        ELSE IF ~IsHexAddress(grantee)
        THEN [err |-> "failed to construct access token: malformed address provided",
              doc |-> EmptyDoc]
        ELSE [err |-> "", doc |-> [nv.doc EXCEPT !.AccessTokens = Append(@, at)]]

----------------------------------------------------------------------------
(* Proofs of fields *)

\* a field is named by the prefix of its tree and the position of its leaf
\* proofs.DocumentTree.CreateProof(field) on the tree with the leaf hashes hs
CreateProof(hs, f) ==
    IF f[2] \notin 1..Len(hs)
    THEN [err |-> "No such field in obj", proof |-> Nil]
    ELSE [err |-> "",
          proof |-> [Property |-> f, Hash |-> hs[f[2]],
                     SortedHashes |-> MerkleProof(hs, f[2])]]

\* newTreeProof(t, th)
newTreeProof(hs, th) == [tree |-> hs, treeHashes |-> th]

\* generateProofs that leaves out the fields it finds no proof for
generateProofs_SkipsBadFields(fields, treeProofs) ==
    LET good == SelectSeq(fields, LAMBDA f :
                    /\ f[1] \in DOMAIN treeProofs
                    /\ CreateProof(treeProofs[f[1]].tree, f).err = "")
    IN  [err |-> "",
         prfs |-> [i \in 1..Len(good) |->
                     LET t == treeProofs[good[i][1]]
                         proof == CreateProof(t.tree, good[i]).proof
                     IN  [proof EXCEPT !.SortedHashes = @ \o t.treeHashes]]]

\* generateProofs(fields, treeProofs): the first field without a tree or
\* without a leaf ends the call
generateProofs(fields, treeProofs) ==
    LET noTree(i) == fields[i][1] \notin DOMAIN treeProofs
        bad == { i \in 1..Len(fields) :
                   \/ noTree(i)
                   \/ CreateProof(treeProofs[fields[i][1]].tree, fields[i]).err # "" }
    IN  IF bad # {}
        THEN LET i == CHOOSE j \in bad : \A k \in bad : j <= k
             IN  [err |-> IF noTree(i)
                          THEN "failed to find prefix tree in supported list"
                          ELSE CreateProof(treeProofs[fields[i][1]].tree, fields[i]).err,
                  prfs |-> Nil]
        ELSE [err |-> "",
              prfs |-> [i \in 1..Len(fields) |->
                          LET t == treeProofs[fields[i][1]]
                              proof == CreateProof(t.tree, fields[i]).proof
                          IN  [proof EXCEPT !.SortedHashes = @ \o t.treeHashes]]]

\* the appended hashes with the signing root in the place of the coredoc root
treeHashesOf_SigningRootForData(prefix, dataPrefix, dataRoot, cdRoot, signaturesRoot, srHash) ==
    CASE prefix = DRTreePrefix -> <<>>
      [] prefix = dataPrefix -> << srHash, signaturesRoot >>
      [] prefix = SignaturesTreePrefix -> << srHash >>
      [] prefix = CDTreePrefix -> << dataRoot, signaturesRoot >>

\* the hashes CreateProofs appends to the proofs of the fields of a tree
treeHashesOf(prefix, dataPrefix, dataRoot, cdRoot, signaturesRoot, srHash) ==
    CASE prefix = DRTreePrefix -> <<>>
      [] prefix = dataPrefix -> << cdRoot, signaturesRoot >>
      [] prefix = SignaturesTreePrefix -> << srHash >>
      [] prefix = CDTreePrefix -> << dataRoot, signaturesRoot >>

\* CreateProofs(docType, dataTree, fields); dataTree is the data tree with
\* its prefix and the hashes of its leaves
CoreDocumentCreateProofs(cd, docType, dataTree, fields, k) ==
    LET dr == DocumentRootTree(cd, k)
        cd1 == dr.doc
        signatureTree == LeafHashes(SignaturesTreePrefix,
                                    signatureDataLeaves(cd1.Signatures),
                                    cd1.SignatureDataSalts)
        drTree == << cd1.SigningRoot, MerkleRoot(signatureTree) >>
        cdTree == LeafHashes(CDTreePrefix, Append(CDLeaves(cd1), docType),
                             cd1.CoredocumentSalts)
        srHash == CreateProof(drTree, << DRTreePrefix, 1 >>).proof.Hash
        dataRoot == MerkleRoot(dataTree.leaves)
        cdRoot == MerkleRoot(cdTree)
        treeOf(prefix) ==
            CASE prefix = DRTreePrefix -> drTree
              [] prefix = dataTree.prefix -> dataTree.leaves
              [] prefix = SignaturesTreePrefix -> signatureTree
              [] prefix = CDTreePrefix -> cdTree
        treeProofs ==
            [prefix \in { DRTreePrefix, dataTree.prefix, SignaturesTreePrefix, CDTreePrefix } |->
                newTreeProof(treeOf(prefix),
                    treeHashesOf(prefix, dataTree.prefix, dataRoot, cdRoot,
                                 MerkleRoot(signatureTree), srHash))]
        res == generateProofs(fields, treeProofs)
    IN  IF dr.err # ""
        THEN [err |-> dr.err, prfs |-> Nil, doc |-> cd]
        ELSE IF Len(dataTree.leaves) = 0
        THEN [err |-> "no properties found in data tree", prfs |-> Nil, doc |-> cd1]
        ELSE [err |-> res.err, prfs |-> res.prfs, doc |-> cd1]

\* proofs.DocumentTree.ValidateProof: the hash of the leaf folded with the
\* sorted hashes of the proof, to be compared with the root of the tree
RECURSIVE CalculateHashForProofField(_, _)
CalculateHashForProofField(hash, hashes) ==
    IF hashes = <<>>
    THEN hash
    ELSE CalculateHashForProofField(HashPair(hash, Head(hashes)), Tail(hashes))

----------------------------------------------------------------------------
(* Updates: the changed fields of a new version and the transition rules *)

\* compactProperties(key), for the tree prefixes
compactProperties(key) ==
    CASE key = CDTreePrefix -> <<"compact", 1, 0, 0, 0>>
      [] key = SigningTreePrefix -> <<"compact", 2, 0, 0, 0>>
      [] key = SignaturesTreePrefix -> <<"compact", 3, 0, 0, 0>>
      [] key = DRTreePrefix -> <<"compact", 4, 0, 0, 0>>

\* bytes.HasPrefix
HasPrefix(b, pre) == Len(pre) <= Len(b) /\ SubSeq(b, 1, Len(pre)) = pre

\* the leaves of documentTree(docType): the envelope fields under the compact
\* prefix of the cd_tree, and the document type leaf
cdTreeLeaves(cd, docType) ==
    [i \in 1..Len(CDLeaves(cd)) |->
        [Property |-> Append(compactProperties(CDTreePrefix), i),
         Value |-> CDLeaves(cd)[i]]]
      \o << [Property |-> Append(compactProperties(CDTreePrefix), 100),
             Value |-> docType] >>

\* the leaves of PurchaseOrder.getDocumentDataTree(): the body fields under
\* compactPrefix()
dataTreeLeaves(po) ==
    << [Property |-> Append(compactPrefix, 1), Value |-> po.PoNumber] >>

\* GetChangedFields(oldTree, newTree, lengthSuffix): the properties whose leaf
\* is in one tree only or has another value in the other tree
GetChangedFields(oldLeaves, newLeaves) ==
    LET props == { l.Property : l \in Range(oldLeaves) \cup Range(newLeaves) }
        valuesOf(ls, q) == { l.Value : l \in { x \in Range(ls) : x.Property = q } }
    IN  { q \in props : valuesOf(oldLeaves, q) # valuesOf(newLeaves, q) }

\* TransitionRulesFor(collaborator): the transition rules that name a role
\* the collaborator is in
TransitionRulesFor(cd, collaborator) ==
    SelectSeq(cd.TransitionRules, LAMBDA rule :
        \E j \in 1..Len(rule.Roles) :
            LET role == getRole(rule.Roles[j], cd.Roles)
            IN  role # <<>> /\ collaborator \in Range(role[1].Collaborators))

\* isValidTransition(rule, changedField)
isValidTransition(rule, cf) ==
    /\ rule.Action = EDIT
    /\ \/ rule.MatchType = PREFIX /\ HasPrefix(cf, rule.Field)
       \/ rule.MatchType = EXACT /\ cf = rule.Field

\* ValidateTransitions(rules, changedFields): an error unless every changed
\* field is covered by one of the rules
ValidateTransitions(rules, changedFields) ==
    IF \A cf \in changedFields : \E i \in 1..Len(rules) : isValidTransition(rules[i], cf)
    THEN ""
    ELSE "invalid transition"

\* CoreDocument.CollaboratorCanUpdate(ncd, collaborator, docType): the changes
\* of the envelope, checked against the rules of cd
CoreDocumentCollaboratorCanUpdate(cd, ncd, collaborator, docType) ==
    ValidateTransitions(TransitionRulesFor(cd, collaborator),
        GetChangedFields(cdTreeLeaves(cd, docType), cdTreeLeaves(ncd, docType)))

\* PurchaseOrder.CollaboratorCanUpdate with the rules taken from the updated
\* model
PurchaseOrderCollaboratorCanUpdate_RulesOfUpdated(po, updated, collaborator) ==
    LET rules == TransitionRulesFor(updated.CoreDocument, collaborator)
        err == ValidateTransitions(rules,
                   GetChangedFields(
                       cdTreeLeaves(po.CoreDocument, PurchaseOrderDataTypeUrl),
                       cdTreeLeaves(updated.CoreDocument, PurchaseOrderDataTypeUrl)))
        cf == GetChangedFields(dataTreeLeaves(po), dataTreeLeaves(updated))
    IN  IF err # "" THEN err ELSE ValidateTransitions(rules, cf)

\* PurchaseOrder.CollaboratorCanUpdate that skips the envelope
PurchaseOrderCollaboratorCanUpdate_DataOnly(po, updated, collaborator) ==
    LET rules == TransitionRulesFor(po.CoreDocument, collaborator)
        cf == GetChangedFields(dataTreeLeaves(po), dataTreeLeaves(updated))
    IN  IF cf = {} THEN "" ELSE ValidateTransitions(rules, cf)

\* PurchaseOrder.CollaboratorCanUpdate(updated, collaborator), p being the
\* old model and updated a purchase order
PurchaseOrderCollaboratorCanUpdate(po, updated, collaborator) ==
    LET err == CoreDocumentCollaboratorCanUpdate(po.CoreDocument, updated.CoreDocument,
                   collaborator, PurchaseOrderDataTypeUrl)
        rules == TransitionRulesFor(po.CoreDocument, collaborator)
        cf == GetChangedFields(dataTreeLeaves(po), dataTreeLeaves(updated))
    IN  IF err # "" THEN err ELSE ValidateTransitions(rules, cf)

----------------------------------------------------------------------------
(* Read access of a requester *)

REQUESTER_VERIFICATION == "ACCESS_TYPE_REQUESTER_VERIFICATION"
NFT_OWNER_VERIFICATION == "ACCESS_TYPE_NFT_OWNER_VERIFICATION"
ACCESS_TOKEN_VERIFICATION == "ACCESS_TYPE_ACCESS_TOKEN_VERIFICATION"
ACCESS_TYPE_INVALID == "ACCESS_TYPE_INVALID"

\* isNFTInRole(role, registry, tokenID): the role holds the NFT constructed
\* from the registry and the token id
isNFTInRole(role, registry, tokenID) ==
    LET c == ConstructNFT(registry, tokenID)
    IN  c.err = "" /\ c.nft \in Range(role.Nfts)

\* the NFT is held by a role that a READ rule names
nftInReadRules(cd, registry, tokenID) ==
    \E i \in 1..Len(cd.ReadRules) :
        /\ cd.ReadRules[i].Action = READ
        /\ \E j \in 1..Len(cd.ReadRules[i].Roles) :
               LET role == getRole(cd.ReadRules[i].Roles[j], cd.Roles)
               IN  role # <<>> /\ isNFTInRole(role[1], registry, tokenID)

\* NFTOwnerCanRead that asks the registry nothing once the NFT is found
NFTOwnerCanRead_IgnoresOwner(cd, owner, registry, tokenID, account) ==
    IF AccountCanRead(cd, account)
    THEN ""
    ELSE IF ~nftInReadRules(cd, registry, tokenID)
    THEN "nft not found in the Document"
    ELSE ""

\* NFTOwnerCanRead(tokenRegistry, registry, tokenID, account); owner is what
\* tokenRegistry.OwnerOf(registry, tokenID) returns when it is asked
NFTOwnerCanRead(cd, owner, registry, tokenID, account) ==
    IF AccountCanRead(cd, account)
    THEN ""
    ELSE IF ~nftInReadRules(cd, registry, tokenID)
    THEN "nft not found in the Document"
    ELSE IF owner.err # ""
    THEN "failed to get NFT owner"
    ELSE IF owner.addr # account
    THEN "account not owner of the NFT"
    ELSE ""

\* validateDocumentAccess with the requester check left out
validateDocumentAccess_RequesterUnchecked(cd, accessType, owner, registry, tokenID, peer) ==
    IF accessType = REQUESTER_VERIFICATION
    THEN ""
    ELSE IF accessType = NFT_OWNER_VERIFICATION
    THEN IF NFTOwnerCanRead(cd, owner, registry, tokenID, peer) # ""
         THEN "requester does not have access"
         ELSE ""
    ELSE IF accessType = ACCESS_TOKEN_VERIFICATION
    THEN "access token request is nil"
    ELSE "invalid access type"

\* Handler.validateDocumentAccess(ctx, docReq, m, peer), for a request that
\* carries no access token request
validateDocumentAccess(cd, accessType, owner, registry, tokenID, peer) ==
    IF accessType = REQUESTER_VERIFICATION
    THEN IF ~AccountCanRead(cd, peer)
         THEN "requester does not have access"
         ELSE ""
    ELSE IF accessType = NFT_OWNER_VERIFICATION
    THEN IF NFTOwnerCanRead(cd, owner, registry, tokenID, peer) # ""
         THEN "requester does not have access"
         ELSE ""
    ELSE IF accessType = ACCESS_TOKEN_VERIFICATION
    THEN "access token request is nil"
    ELSE "invalid access type"

----------------------------------------------------------------------------
(* The purchase order body and the anchor processor *)

\* embedded body of a packed document, and the salts of its leaves
BodyData(po) == <<"any", PurchaseOrderDataTypeUrl, createP2PProtobuf(po)>>

\* PurchaseOrder.getDocumentDataTree(), as the model it leaves behind: the
\* model with the salts of its body
withDocumentDataTree(po) == getPurchaseOrderSalts(po, po.CoreDocument.CurrentVersion)

\* PurchaseOrder.getDocumentDataTree().RootHash()
getDocumentDataTree(po) ==
    RootHash("po", << createP2PProtobuf(po).PoNumber >>,
             withDocumentDataTree(po).PurchaseOrderSalts)

\* PurchaseOrder.PackCoreDocument(): the packed document, and the model with
\* the salts of its body
PurchaseOrderPackCoreDocument(po) ==
    LET po1 == getPurchaseOrderSalts(po, po.CoreDocument.CurrentVersion)
    IN  [cd |-> PackCoreDocument(po1.CoreDocument, BodyData(po1), po1.PurchaseOrderSalts),
         p |-> po1]

\* UnpackCoreDocument that makes salts of its own for the body
PurchaseOrderUnpackCoreDocument_NewSalts(po, cd) ==
    IF cd.EmbeddedData = Nil \/ cd.EmbeddedData[2] # PurchaseOrderDataTypeUrl
    THEN [err |-> "trying to convert document with incorrect schema", p |-> po]
    ELSE [err |-> "",
          p |-> [getPurchaseOrderSalts(
                     [loadFromP2PProtobuf(po, cd.EmbeddedData[3])
                         EXCEPT !.PurchaseOrderSalts = Nil], << "unpacked" >>)
                   EXCEPT !.CoreDocument = NewCoreDocumentFromProtobuf(cd)]]

\* PurchaseOrder.UnpackCoreDocument(cd) on the model po
PurchaseOrderUnpackCoreDocument(po, cd) ==
    IF cd.EmbeddedData = Nil \/ cd.EmbeddedData[2] # PurchaseOrderDataTypeUrl
    THEN [err |-> "trying to convert document with incorrect schema", p |-> po]
    ELSE LET po1 == loadFromP2PProtobuf(po, cd.EmbeddedData[3])
             po2 == IF cd.EmbeddedDataSalts = Nil
                    THEN getPurchaseOrderSalts(po1, << "unpacked" >>)
                    ELSE [po1 EXCEPT !.PurchaseOrderSalts = cd.EmbeddedDataSalts]
         IN  [err |-> "",
              p |-> [po2 EXCEPT !.CoreDocument = NewCoreDocumentFromProtobuf(cd)]]

\* PurchaseOrder.CreateProofs(fields)
PurchaseOrderCreateProofs(po, fields, k) ==
    CoreDocumentCreateProofs(po.CoreDocument, PurchaseOrderDataTypeUrl,
        [prefix |-> "po",
         leaves |-> LeafHashes("po", << createP2PProtobuf(po).PoNumber >>,
                               withDocumentDataTree(po).PurchaseOrderSalts)],
        fields, k)

\* PurchaseOrder.CalculateDataRoot()
PurchaseOrderCalculateDataRoot(po) ==
    [withDocumentDataTree(po) EXCEPT !.CoreDocument = SetDataRoot(@, getDocumentDataTree(po))]

\* Account.SignMsg(msg): the account's signature over msg
SignMsg(account, msg) ==
    [SignerId |-> account, Signature |-> <<"signature", account, msg>>]

\* defaultProcessor.PrepareForSignatureRequests(ctx, model); self is the
\* account of ctx (Nil when ctx carries none), now the time of the update
PrepareForSignatureRequests(po, self, now) ==
    LET po1 == PurchaseOrderCalculateDataRoot(po)
        cd2 == AddUpdateLog(po1.CoreDocument, self, now)
        sr == CalculateSigningRoot(cd2, PurchaseOrderDataTypeUrl)
        sig == SignMsg(self, sr.doc.SigningRoot)
    IN  IF self = Nil
        THEN [err |-> "failed to get account", p |-> po]
        ELSE IF sr.err # ""
        THEN [err |-> "failed to calculate signing root",
              p |-> [po1 EXCEPT !.CoreDocument = cd2]]
        ELSE [err |-> "",
              p |-> [po1 EXCEPT !.CoreDocument = AppendSignatures(sr.doc, <<sig>>)]]

\* PrepareForSignatureRequests with the signature made before the update
\* log is recorded
PrepareForSignatureRequestsWith_SignedFirst(po, self, now, fail) ==
    LET po1 == PurchaseOrderCalculateDataRoot(po)
        sr == CalculateSigningRoot(po1.CoreDocument, PurchaseOrderDataTypeUrl)
        sig == SignMsg(self, sr.doc.SigningRoot)
        cd3 == CalculateSigningRoot(AddUpdateLog(po1.CoreDocument, self, now),
                                    PurchaseOrderDataTypeUrl).doc
    IN  IF self = Nil \/ fail # "" \/ sr.err # ""
        THEN [err |-> "failed", p |-> po]
        ELSE [err |-> "",
              p |-> [po1 EXCEPT !.CoreDocument = AppendSignatures(cd3, <<sig>>)]]

\* PrepareForSignatureRequests(ctx, model) with the errors of its steps:
\* fail names the call that returns an error ("": none)
PrepareForSignatureRequestsWith(po, self, now, fail) ==
    LET po1 == PurchaseOrderCalculateDataRoot(po)
        cd2 == AddUpdateLog(po1.CoreDocument, self, now)
        sr == CalculateSigningRoot(cd2, PurchaseOrderDataTypeUrl)
        sig == SignMsg(self, sr.doc.SigningRoot)
    IN  IF self = Nil
        THEN [err |-> "failed to get account", p |-> po]
        ELSE IF fail = "CalculateDataRoot"
        THEN [err |-> fail, p |-> po]
        ELSE IF fail \in { "GetIdentityID", "AddUpdateLog" }
        THEN [err |-> fail, p |-> po1]
        ELSE IF sr.err # "" \/ fail = "CalculateSigningRoot"
        THEN [err |-> "failed to calculate signing root",
              p |-> [po1 EXCEPT !.CoreDocument = cd2]]
        ELSE IF fail = "SignMsg"
        THEN [err |-> fail, p |-> [po1 EXCEPT !.CoreDocument = sr.doc]]
        ELSE [err |-> "",
              p |-> [po1 EXCEPT !.CoreDocument = AppendSignatures(sr.doc, <<sig>>)]]

----------------------------------------------------------------------------
(* The document service of a node that receives documents from peers *)

ErrDocumentConfigAccountID == "ErrDocumentConfigAccountID"
ErrDocumentNil == "ErrDocumentNil"
ErrDocumentInvalid == "ErrDocumentInvalid"
ErrDocumentPersistence == "ErrDocumentPersistence"
ErrDocumentVersionNotFound == "ErrDocumentVersionNotFound"
ErrDocumentVersionCycle == "ErrDocumentVersionCycle"

\* the store with model m under the key version
repoPut(r, version, m) ==
    [v \in DOMAIN r \cup {version} |-> IF v = version THEN m ELSE r[v]]

\* Repository.Create(account, version, model): fails when the key is taken
repoCreate(r, version, m) ==
    IF version \in DOMAIN r
    THEN [err |-> "model already exists", repo |-> r]
    ELSE [err |-> "", repo |-> repoPut(r, version, m)]

\* Repository.Update(account, version, model): fails when the key is absent
repoUpdate(r, version, m) ==
    IF version \notin DOMAIN r
    THEN [err |-> "model doesn't exist", repo |-> r]
    ELSE [err |-> "", repo |-> repoPut(r, version, m)]

\* every signature of the version is a signature of its signer over the
\* signing root
signaturesValidator(cd) ==
    IF \A i \in 1..Len(cd.Signatures) :
          cd.Signatures[i] = SignMsg(cd.Signatures[i].SignerId, cd.SigningRoot)
    THEN {}
    ELSE { "invalid signature" }

\* transitionValidator(collaborator).Validate(old, new): for a version that
\* names a previous version, that version is loaded from the store and the
\* update is checked against it, with the sender as the actor
transitionValidator(r, model, collaborator) ==
    LET prev == model.CoreDocument.PreviousVersion
    IN  IF prev = Nil
        THEN {}
        ELSE IF prev \notin DOMAIN r
        THEN { "unknown predecessor" }
        ELSE IF PurchaseOrderCollaboratorCanUpdate(r[prev], model, collaborator) # ""
        THEN { "invalid document state transition" }
        ELSE {}

\* the result of a service call: the error kind, the failures the validators
\* found, the signature returned, the store and the model after the call
ServiceResult(err, why, sig, r, model) ==
    [err |-> err, why |-> why, sig |-> sig, repo |-> r, model |-> model]

\* service.RequestDocumentSignature(ctx, model, collaborator): self is the
\* account of ctx (Nil: none), present is FALSE for a nil model
RequestDocumentSignature(r, self, present, model, collaborator) ==
    LET sr == CalculateSigningRoot(model.CoreDocument, PurchaseOrderDataTypeUrl)
        why == transitionValidator(r, model, collaborator)
                 \cup (IF sr.err # "" THEN { sr.err } ELSE {})
                 \cup signaturesValidator(sr.doc)
        sig == SignMsg(self, sr.doc.SigningRoot)
        signed == [model EXCEPT !.CoreDocument = AppendSignatures(sr.doc, <<sig>>)]
        cr == repoCreate(r, signed.CoreDocument.CurrentVersion, signed)
    IN  IF self = Nil
        THEN ServiceResult(ErrDocumentConfigAccountID, {}, Nil, r, model)
        ELSE IF ~present
        THEN ServiceResult(ErrDocumentNil, {}, Nil, r, model)
        ELSE IF why # {}
        THEN ServiceResult(ErrDocumentInvalid, why, Nil, r, model)
        ELSE IF cr.err # ""
        THEN ServiceResult(ErrDocumentPersistence, {}, Nil, r, model)
        ELSE ServiceResult("", {}, sig, cr.repo, signed)

\* ReceiveAnchoredDocument that stores the version whether the store holds
\* it or not
ReceiveAnchoredDocument_Stored(r, self, present, model, collaborator, anchor, k) ==
    LET dr == CalculateDocumentRoot(model.CoreDocument, k)
        rooted == [model EXCEPT !.CoreDocument = dr.doc]
    IN  IF self = Nil \/ ~present \/ dr.err # "" \/ anchor.err # ""
             \/ anchor.root # dr.doc.DocumentRoot
             \/ transitionValidator(r, model, collaborator) # {}
             \/ signaturesValidator(model.CoreDocument) # {}
        THEN ServiceResult(ErrDocumentInvalid, { "invalid" }, Nil, r, model)
        ELSE ServiceResult("", {}, Nil,
                           repoPut(r, rooted.CoreDocument.CurrentVersion, rooted),
                           rooted)

\* ReceiveAnchoredDocument without the comparison with the anchored root
ReceiveAnchoredDocument_AnchorUnchecked(r, self, present, model, collaborator, anchor, k) ==
    LET dr == CalculateDocumentRoot(model.CoreDocument, k)
        rooted == [model EXCEPT !.CoreDocument = dr.doc]
        up == repoUpdate(r, rooted.CoreDocument.CurrentVersion, rooted)
    IN  IF self = Nil
        THEN ServiceResult(ErrDocumentConfigAccountID, {}, Nil, r, model)
        ELSE IF ~present
        THEN ServiceResult(ErrDocumentNil, {}, Nil, r, model)
        ELSE IF dr.err # ""
        THEN ServiceResult(ErrDocumentInvalid, { dr.err }, Nil, r, model)
        ELSE IF up.err # ""
        THEN ServiceResult(ErrDocumentPersistence, {}, Nil, r, model)
        ELSE ServiceResult("", {}, Nil, up.repo, rooted)

\* service.ReceiveAnchoredDocument(ctx, model, collaborator); anchor is what
\* the anchor repository returns for the current version of the model
ReceiveAnchoredDocument(r, self, present, model, collaborator, anchor, k) ==
    LET dr == CalculateDocumentRoot(model.CoreDocument, k)
        why == transitionValidator(r, model, collaborator)
                 \cup signaturesValidator(model.CoreDocument)
                 \cup (IF dr.err # "" THEN { dr.err }
                       ELSE IF anchor.err # "" THEN { "failed to get anchor data" }
                       ELSE IF anchor.root # dr.doc.DocumentRoot
                       THEN { "mismatched document roots" }
                       ELSE {})
        rooted == [model EXCEPT !.CoreDocument = dr.doc]
        up == repoUpdate(r, rooted.CoreDocument.CurrentVersion, rooted)
    IN  IF self = Nil
        THEN ServiceResult(ErrDocumentConfigAccountID, {}, Nil, r, model)
        ELSE IF ~present
        THEN ServiceResult(ErrDocumentNil, {}, Nil, r, model)
        ELSE IF why # {}
        THEN ServiceResult(ErrDocumentInvalid, why, Nil, r, model)
        ELSE IF up.err # ""
        THEN ServiceResult(ErrDocumentPersistence, {}, Nil, r, model)
        ELSE ServiceResult("", {}, Nil, up.repo, rooted)

\* the state of GetCurrentVersion before its first lookup of a next version:
\* the walk stands at documentID, or has failed when documentID is not stored
getCurrentVersionStart(r, documentID) ==
    IF documentID \notin DOMAIN r
    THEN [walking |-> FALSE, at |-> documentID, seen |-> {},
          err |-> ErrDocumentVersionNotFound, model |-> NoModel]
    ELSE [walking |-> TRUE, at |-> documentID, seen |-> { documentID },
          err |-> "", model |-> NoModel]

\* getCurrentVersionStep with every walk ended at the version it stands at
getCurrentVersionStep_NoWalk(r, w) ==
    [walking |-> FALSE, at |-> w.at, seen |-> w.seen, err |-> "", model |-> r[w.at]]

\* getCurrentVersionStep without the detection of cycles
getCurrentVersionStep_NoDetection(r, w) ==
    IF r[w.at].CoreDocument.NextVersion \notin DOMAIN r
    THEN [walking |-> FALSE, at |-> w.at, seen |-> w.seen, err |-> "",
          model |-> r[w.at]]
    ELSE [walking |-> TRUE, at |-> r[w.at].CoreDocument.NextVersion,
          seen |-> w.seen \cup { r[w.at].CoreDocument.NextVersion },
          err |-> "", model |-> NoModel]

\* one turn of the loop of GetCurrentVersion: the next version of the
\* version the walk stands at is looked up; the walk ends there when the key
\* is absent, fails when the key was visited before, and moves on otherwise
getCurrentVersionStep(r, w) ==
    IF r[w.at].CoreDocument.NextVersion \notin DOMAIN r
    THEN [walking |-> FALSE, at |-> w.at, seen |-> w.seen, err |-> "",
          model |-> r[w.at]]
    ELSE IF r[w.at].CoreDocument.NextVersion \in w.seen
    THEN [walking |-> FALSE, at |-> w.at, seen |-> w.seen,
          err |-> ErrDocumentVersionCycle, model |-> NoModel]
    ELSE [walking |-> TRUE, at |-> r[w.at].CoreDocument.NextVersion,
          seen |-> w.seen \cup { r[w.at].CoreDocument.NextVersion },
          err |-> "", model |-> NoModel]

\* the loop of GetCurrentVersion run to its end
RECURSIVE getCurrentVersionWalk(_, _)
getCurrentVersionWalk(r, w) ==
    IF ~w.walking THEN w ELSE getCurrentVersionWalk(r, getCurrentVersionStep(r, w))

\* service.GetCurrentVersion(ctx, documentID)
GetCurrentVersion(r, documentID) ==
    getCurrentVersionWalk(r, getCurrentVersionStart(r, documentID))

----------------------------------------------------------------------------
(* The anchor processor: signatures, anchoring and delivery *)

\* RequestSignatures that asks the peers without validating first
RequestSignatures_Unvalidated(po, signs, collectErr) ==
    IF collectErr # ""
    THEN [err |-> "failed to collect signatures from the collaborators",
          why |-> {}, contacted |-> TRUE, p |-> po]
    ELSE [err |-> "", why |-> {}, contacted |-> TRUE,
          p |-> [po EXCEPT !.CoreDocument = AppendSignatures(@, signs)]]

\* RequestSignatures(ctx, model): signs and collectErr are what
\* p2pClient.GetSignaturesForDocument returns (its list of errors of single
\* peers is dropped by the caller); contacted tells whether the client was
\* called
RequestSignatures(po, signs, collectErr) ==
    IF signaturesValidator(po.CoreDocument) # {}
    THEN [err |-> "failed to validate model for signature request",
          why |-> signaturesValidator(po.CoreDocument), contacted |-> FALSE, p |-> po]
    ELSE IF collectErr # ""
    THEN [err |-> "failed to collect signatures from the collaborators",
          why |-> {}, contacted |-> TRUE, p |-> po]
    ELSE [err |-> "", why |-> {}, contacted |-> TRUE,
          p |-> [po EXCEPT !.CoreDocument = AppendSignatures(@, signs)]]

\* anchors.ToAnchorID(bytes) and anchors.ToDocumentRoot(bytes): both take 32
\* bytes
ToAnchorID(b) ==
    IF ByteLen(b) # idSize
    THEN [err |-> "invalid length byte slice provided for anchorID", id |-> Nil]
    ELSE [err |-> "", id |-> b]

ToDocumentRoot(b) ==
    IF ByteLen(b) # idSize
    THEN [err |-> "invalid length byte slice provided for docRoot", root |-> Nil]
    ELSE [err |-> "", root |-> b]

\* GetSignaturesRootHash(), on a document whose signature salts are set
GetSignaturesRootHash(cd) == getSignatureDataTree(cd)

\* PreAnchorValidator: every signature is valid over the signing root
PreAnchorValidator(cd) == signaturesValidator(cd)

\* what a processor call hands to the anchor repository, or the error it
\* returns before: req is << >> when nothing is submitted
Submission(err, po, req) == [err |-> err, p |-> po, req |-> req]

\* PreAnchorDocument(ctx, model) up to dp.anchorRepository.PreCommitAnchor
preAnchorSubmission(po, sr) ==
    IF sr.err # ""
    THEN Submission(sr.err, po, Nil)
    ELSE IF ToAnchorID(sr.doc.CurrentVersion).err # ""
    THEN Submission(ToAnchorID(sr.doc.CurrentVersion).err,
                    [po EXCEPT !.CoreDocument = sr.doc], Nil)
    ELSE IF ToDocumentRoot(sr.doc.SigningRoot).err # ""
    THEN Submission(ToDocumentRoot(sr.doc.SigningRoot).err,
                    [po EXCEPT !.CoreDocument = sr.doc], Nil)
    ELSE Submission("", [po EXCEPT !.CoreDocument = sr.doc],
                    << [op |-> "PreCommitAnchor",
                        anchorID |-> sr.doc.CurrentVersion,
                        signingRoot |-> sr.doc.SigningRoot] >>)

PreAnchorDocument(po) ==
    preAnchorSubmission(po, CalculateSigningRoot(po.CoreDocument,
                                                 PurchaseOrderDataTypeUrl))

\* AnchorDocument that commits without validating the signatures
anchorSubmission_Unvalidated(po, dr) ==
    Submission("", [po EXCEPT !.CoreDocument = dr.doc],
               << [op |-> "CommitAnchor",
                   anchorIDPreimage |-> dr.doc.CurrentPreimage,
                   rootHash |-> dr.doc.DocumentRoot,
                   proofs |-> << GetSignaturesRootHash(dr.doc) >>] >>)

\* AnchorDocument that commits with the preimage of the next version
anchorSubmission_NextPreimage(po, dr) ==
    IF PreAnchorValidator(po.CoreDocument) # {} \/ dr.err # ""
    THEN Submission("pre anchor validation failed", po, Nil)
    ELSE Submission("", [po EXCEPT !.CoreDocument = dr.doc],
                    << [op |-> "CommitAnchor",
                        anchorIDPreimage |-> dr.doc.NextPreimage,
                        rootHash |-> dr.doc.DocumentRoot,
                        proofs |-> << GetSignaturesRootHash(dr.doc) >>] >>)

\* AnchorDocument(ctx, model) up to dp.anchorRepository.CommitAnchor; dr is
\* the result of model.CalculateDocumentRoot()
anchorSubmission(po, dr) ==
    IF PreAnchorValidator(po.CoreDocument) # {}
    THEN Submission("pre anchor validation failed", po, Nil)
    ELSE IF dr.err # ""
    THEN Submission("failed to get document root", po, Nil)
    ELSE IF ToDocumentRoot(dr.doc.DocumentRoot).err # ""
    THEN Submission("failed to get document root",
                    [po EXCEPT !.CoreDocument = dr.doc], Nil)
    ELSE IF ToAnchorID(dr.doc.CurrentPreimage).err # ""
    THEN Submission("failed to get anchor ID",
                    [po EXCEPT !.CoreDocument = dr.doc], Nil)
    ELSE Submission("", [po EXCEPT !.CoreDocument = dr.doc],
                    << [op |-> "CommitAnchor",
                        anchorIDPreimage |-> dr.doc.CurrentPreimage,
                        rootHash |-> dr.doc.DocumentRoot,
                        proofs |-> << GetSignaturesRootHash(dr.doc) >>] >>)

AnchorDocument(po, k) ==
    anchorSubmission(po, CalculateDocumentRoot(po.CoreDocument, k))

\* the anchor repository takes a request: it returns an error or not, and a
\* completion channel that is open or nil; the call then waits on the channel
submitAnchor(a, req, answer) ==
    [a EXCEPT !.wait = << [req |-> req, err |-> answer.err, chan |-> answer.chan] >>]

\* the anchor id a request is about
requestAnchorID(req) ==
    IF req.op = "PreCommitAnchor" THEN req.anchorID ELSE Sha256(req.anchorIDPreimage)

\* whether the registry can complete the waiting request with true: the
\* submission did not fail, a pre-commit reserves an anchor id that is
\* neither reserved nor committed, and a commit is the first for its anchor id
canComplete(a) ==
    /\ a.wait[1].err = ""
    /\ IF a.wait[1].req.op = "PreCommitAnchor"
       THEN \A q \in a.pre \cup a.commits :
                q.anchorID # requestAnchorID(a.wait[1].req)
       ELSE \A q \in a.commits : q.anchorID # requestAnchorID(a.wait[1].req)

\* the registry after the waiting request completed with isDone
completeAnchor(a, isDone) ==
    IF ~isDone
    THEN [a EXCEPT !.wait = Nil]
    ELSE IF a.wait[1].req.op = "PreCommitAnchor"
    THEN [a EXCEPT !.wait = Nil,
                   !.pre = @ \cup { [anchorID |-> a.wait[1].req.anchorID,
                                     signingRoot |-> a.wait[1].req.signingRoot] }]
    ELSE [a EXCEPT !.wait = Nil,
                   !.commits = @ \cup { [anchorID |-> requestAnchorID(a.wait[1].req),
                                         preimage |-> a.wait[1].req.anchorIDPreimage,
                                         root |-> a.wait[1].req.rootHash,
                                         proofs |-> a.wait[1].req.proofs] }]

\* what the waiting call returns after `isDone := <-done`
anchorReturn(req, isDone) ==
    IF isDone THEN ""
    ELSE IF req.op = "PreCommitAnchor" THEN "failed to pre-commit anchor"
    ELSE "failed to commit anchor"

\* PostAnchoredValidator: the pre-anchor validation, and the anchor registry
\* holds the document root of the model for its current version
PostAnchoredValidator(a, cd, k) ==
    PreAnchorValidator(cd)
      \cup (IF CalculateDocumentRoot(cd, k).err # ""
            THEN { "failed to get document root" }
            ELSE IF \E c \in a.commits :
                       /\ c.anchorID = cd.CurrentVersion
                       /\ c.root = CalculateDocumentRoot(cd, k).doc.DocumentRoot
            THEN {}
            ELSE { "mismatched document roots" })

\* Send(ctx, cd, id): reply is what p2pClient.SendAnchoredDocument returned
Send(reply) ==
    IF reply.err # "" \/ ~reply.accepted
    THEN "failed to send document to the node"
    ELSE ""

\* the result of SendDocument: the error, "" for nil; the recipients that
\* Send was called for, in order; and the errors appended on the way
Delivery(err, po, sent, errs) == [err |-> err, p |-> po, sent |-> sent, errs |-> errs]

\* the loop of SendDocument over the recipients cs
sendAll(po, packed, cs, replies) ==
    Delivery(IF \E i \in 1..Len(cs) : Send(replies[i]) # ""
             THEN "failed to send document to the node" ELSE "",
             packed,
             cs,
             SelectSeq([i \in 1..Len(cs) |-> Send(replies[i])], LAMBDA e : e # ""))

\* SendDocument that sends to every collaborator of the read rules, the
\* sender and the readers included
SendDocument_Everyone(a, po, self, replies, k) ==
    sendAll(po, PurchaseOrderPackCoreDocument(po).p,
            GetCollaborators(po.CoreDocument), replies)

\* SendDocument that does not validate before it sends
SendDocument_Unvalidated(a, po, self, replies, k) ==
    IF self = Nil
    THEN Delivery("failed to get account", po, <<>>, <<>>)
    ELSE sendAll(po, PurchaseOrderPackCoreDocument(po).p,
                 GetSignerCollaborators(po.CoreDocument, << self >>), replies)

\* SendDocument(ctx, model) for the account self of the context
SendDocument(a, po, self, replies, k) ==
    IF PostAnchoredValidator(a, po.CoreDocument, k) # {}
    THEN Delivery("post anchor validations failed", po, <<>>, <<>>)
    ELSE IF self = Nil
    THEN Delivery("failed to get account", po, <<>>, <<>>)
    ELSE sendAll(po, PurchaseOrderPackCoreDocument(po).p,
                 GetSignerCollaborators(po.CoreDocument, << self >>), replies)

----------------------------------------------------------------------------
(* Peer messages *)

\* Go error values: nil, an error of the errors package, and a centerrors
\* error, which is a protobuf message
NoError == [msg |-> "", code |-> "", proto |-> FALSE]

errorsNew(msg) == [msg |-> msg, code |-> "", proto |-> FALSE]

centerrorsNew(code, msg) == [msg |-> msg, code |-> code, proto |-> TRUE]

\* message types of the envelopes a handler returns
MessageTypeError == "MessageTypeError"
MessageTypeSendAnchoredDocRep == "MessageTypeSendAnchoredDocRep"
MessageTypeGetDocRep == "MessageTypeGetDocRep"

\* what a handler returns: the envelope (Nil: none), the error, the failures
\* the validators found, and the store after the call
HandlerResult(envelope, err, why, r) ==
    [envelope |-> envelope, err |-> err, why |-> why, repo |-> r]

\* convertToErrorEnvelop(err): an ERROR envelope for an error that is a
\* protobuf message, else no envelope and the error itself
convertToErrorEnvelop(err, why, r) ==
    IF ~err.proto
    THEN HandlerResult(Nil, err, why, r)
    ELSE HandlerResult(<< MessageTypeError, err >>, NoError, why, r)

\* the reply envelope for res, or the error of GetConfig or of
\* PrepareP2PEnvelope; nc is the error of the two calls ("": none)
replyEnvelope(nc, type, res, r) ==
    IF nc # ""
    THEN convertToErrorEnvelop(errorsNew(nc), {}, r)
    ELSE HandlerResult(<< type, res >>, NoError, {}, r)

\* docSrv.DeriveFromCoreDocument(cd): the model of the body type of cd
DeriveFromCoreDocument(cd) == PurchaseOrderUnpackCoreDocument(NoModel, cd)

\* anchorDocumentResponse with the error of the service ignored
anchorDocumentResponse_ErrorIgnored(rec) ==
    [res |-> << "AnchorDocumentResponse", TRUE >>, err |-> NoError,
     why |-> {}, repo |-> rec.repo]

\* what SendAnchoredDocument returns for the result rec of
\* docSrv.ReceiveAnchoredDocument
anchorDocumentResponse(rec) ==
    IF rec.err # ""
    THEN [res |-> Nil, err |-> centerrorsNew("Unknown", rec.err),
          why |-> rec.why, repo |-> rec.repo]
    ELSE [res |-> << "AnchorDocumentResponse", TRUE >>, err |-> NoError,
          why |-> {}, repo |-> rec.repo]

\* Handler.SendAnchoredDocument(ctx, docReq, collaborator): docReq.Document
\* is << >> for a nil document, else << cd >>
SendAnchoredDocument(r, self, docReq, collaborator, anchor, k) ==
    IF docReq.Document = Nil
    THEN [res |-> Nil, err |-> errorsNew("nil document provided"),
          why |-> {}, repo |-> r]
    ELSE IF DeriveFromCoreDocument(docReq.Document[1]).err # ""
    THEN [res |-> Nil, err |-> errorsNew("failed to derive from core doc"),
          why |-> {}, repo |-> r]
    ELSE anchorDocumentResponse(
             ReceiveAnchoredDocument(r, self, TRUE,
                                     DeriveFromCoreDocument(docReq.Document[1]).p,
                                     collaborator, anchor, k))

\* the envelope a handler returns for the result s of its call: the reply
\* of the given type, or the error
handlerEnvelope(s, type, nc) ==
    IF s.err # NoError
    THEN convertToErrorEnvelop(s.err, s.why, s.repo)
    ELSE replyEnvelope(nc, type, s.res, s.repo)

\* Handler.HandleSendAnchoredDocument(ctx, peer, protoc, msg): body is Nil
\* for bytes that do not unmarshal, else << docReq >>
HandleSendAnchoredDocument(r, self, body, sender, anchor, k, nc) ==
    IF body = Nil
    THEN convertToErrorEnvelop(errorsNew("proto: cannot unmarshal"), {}, r)
    ELSE handlerEnvelope(SendAnchoredDocument(r, self, body[1], sender, anchor, k),
                         MessageTypeSendAnchoredDocRep, nc)

\* GetDocument that answers with the document whatever the access check says
getDocumentResponse_Unchecked(cur, docReq, owner, requester, r) ==
    IF cur.err # ""
    THEN [res |-> Nil, err |-> errorsNew(cur.err), why |-> {}, repo |-> r]
    ELSE [res |-> << "GetDocumentResponse", PurchaseOrderPackCoreDocument(cur.model).cd >>,
          err |-> NoError, why |-> {}, repo |-> r]

\* what GetDocument returns for the result cur of docSrv.GetCurrentVersion:
\* when validateDocumentAccess fails it returns err, the error of
\* GetCurrentVersion, which is nil at that point
getDocumentResponse(cur, docReq, owner, requester, r) ==
    IF cur.err # ""
    THEN [res |-> Nil, err |-> errorsNew(cur.err), why |-> {}, repo |-> r]
    ELSE IF validateDocumentAccess(cur.model.CoreDocument, docReq.AccessType, owner,
                                   docReq.NftRegistryAddress, docReq.NftTokenId,
                                   requester) # ""
    THEN [res |-> Nil, err |-> NoError, why |-> {}, repo |-> r]
    ELSE [res |-> << "GetDocumentResponse", PurchaseOrderPackCoreDocument(cur.model).cd >>,
          err |-> NoError, why |-> {}, repo |-> r]

\* Handler.GetDocument(ctx, docReq, requester); owner is the answer of the
\* token registry
GetDocument(r, docReq, owner, requester) ==
    getDocumentResponse(GetCurrentVersion(r, docReq.DocumentIdentifier), docReq,
                        owner, requester, r)

\* Handler.HandleGetDocument(ctx, peer, protoc, msg): body is Nil for bytes
\* that do not unmarshal, else << docReq >>
HandleGetDocument(r, body, requester, owner, nc) ==
    IF body = Nil
    THEN convertToErrorEnvelop(errorsNew("proto: cannot unmarshal"), {}, r)
    ELSE handlerEnvelope(GetDocument(r, body[1], owner, requester),
                         MessageTypeGetDocRep, nc)

----------------------------------------------------------------------------
(* Inputs *)

\* collaborator lists a caller may pass: none, a malformed address, the
\* first identity in lower case, and each identity in upper case followed by
\* the next one in lower case
CollaboratorInputs ==
    { <<>>, << BadString >>, << AddrString(1, "lower") >> }
      \cup { << AddrString(d, "upper"), AddrString(d + 1, "lower") >> : d \in 1..(NumDIDs - 1) }

\* identity lists for a direct initReadRules call
DIDListInputs == { <<>>, << DIDBytes(1) >> }

\* data roots of the bodies a caller may set
DataRootInputs(po) == { getDocumentDataTree(po) }

\* the signature a peer returns when the version holds j signatures already
SignatureInputs(j) ==
    { [SignerId |-> DIDBytes(1), Signature |-> <<"signature", DIDBytes(1), j + 1>>] }

\* the signatures the collaborators return for the signing root of cd
PeerSignatureInputs(cd) == { SignMsg(d, cd.SigningRoot) : d \in DIDs }

\* the fields of the four trees of a purchase order: the body field, the
\* envelope fields and the document type, signer and signature of every
\* signature, and the two roots of the dr_tree
FieldsOf(po) ==
    { << "po", 1 >> }
      \cup { << CDTreePrefix, i >> : i \in 1..(Len(CDLeaves(po.CoreDocument)) + 1) }
      \cup { << SignaturesTreePrefix, j >> :
                j \in 1..(2 * Len(po.CoreDocument.Signatures)) }
      \cup { << DRTreePrefix, 1 >>, << DRTreePrefix, 2 >> }

\* the field lists a caller asks proofs for: one field of every tree, two
\* fields, a field of no tree alone and after a good field, and a field that
\* its tree does not hold after a good field
FieldListInputs ==
    { << << "po", 1 >> >>,
      << << CDTreePrefix, 9 >> >>,
      << << SignaturesTreePrefix, 1 >> >>,
      << << DRTreePrefix, 2 >> >>,
      << << "po", 1 >>, << SignaturesTreePrefix, 2 >> >>,
      << << "invalid_field", 1 >> >>,
      << << "po", 1 >>, << "invalid_field", 1 >> >>,
      << << CDTreePrefix, 1 >>, << "po", 2 >> >> }

\* the account a call context carries; Nil when it carries none
AccountInputs == { DIDBytes(1), Nil }

\* time.Now() when version k has seen j signatures
Now(k, j) == <<"time", k, j>>

RegistryInputs == { RegistryAddr(x) : x \in 1..NumRegistries }
\* the token id minted for version k (utils.RandomSlice(32) in the callers)
TokenInputs(k) == { TokenID(k) }

\* token ids of a direct addNFTToReadRules call
ReadTokenInputs == { TokenID(1), Token34 }

\* token ids named by a GetDocument request
RequestTokenInputs == { TokenID(1), TokenID(2) }

\* the peer that asks for the document: an identity that may be a
\* collaborator, or an outsider
PeerInputs == { DIDBytes(1), DIDBytes(0) }

\* what tokenRegistry.OwnerOf returns: an error, or the owner's address
OwnerOfInputs ==
    { [err |-> "failed to get owner of", addr |-> Nil] }
      \cup { [err |-> "", addr |-> a] : a \in PeerInputs }

AccessTypeInputs ==
    { REQUESTER_VERIFICATION, NFT_OWNER_VERIFICATION, ACCESS_TOKEN_VERIFICATION,
      ACCESS_TYPE_INVALID }

\* the bodies an update may carry
PoDataInputs == { [PoNumber |-> ""], [PoNumber |-> "po-2"] }

\* the collaborators an update may add: none, or the first two identities
UpdateCollaboratorInputs ==
    { <<>>, << AddrString(1, "upper"), AddrString(2, "lower") >> }

\* the account of the receiving node
ReceiverAccount == DIDBytes(NumDIDs + 1)

\* the peer that presents a version to the receiving node: the author, an
\* identity that later versions add as a collaborator, or an outsider
ActorInputs == { DIDBytes(0), DIDBytes(1), DIDBytes(2) }

\* the calls a peer makes on the service: one without an account in the
\* context, one without a model, and one for every sender
ServiceCallInputs ==
    { [self |-> Nil, present |-> TRUE, collaborator |-> DIDBytes(1)],
      [self |-> ReceiverAccount, present |-> FALSE, collaborator |-> DIDBytes(1)] }
      \cup { [self |-> ReceiverAccount, present |-> TRUE, collaborator |-> a] :
                a \in ActorInputs }

\* what the anchor repository returns for the version of cd: the root cd
\* has when its document root is calculated, another root, or an error
AnchorInputs(cd, k) ==
    { [err |-> "", root |-> CalculateDocumentRoot(cd, k).doc.DocumentRoot],
      [err |-> "", root |-> RandomSlice(<<k, "anchored">>)],
      [err |-> "anchor not found", root |-> Nil] }

\* the i-th version a test writes to the store; the version 0 is never stored
StoredVersion(i) == RandomSlice(<<"stored", i>>)

\* the versions a test stores, and the next versions it gives them: none, a
\* version that is never stored, or any of the versions
StoredVersionInputs == { StoredVersion(i) : i \in 1..MaxStored }

NextVersionInputs == { Nil, StoredVersion(0) } \cup StoredVersionInputs

\* the document identifiers GetCurrentVersion is asked for: the first version
\* of the document, and one that is never stored
DocumentIDInputs == { StoredVersion(1), StoredVersion(0) }

\* the bodies of the SendAnchoredDocument messages a peer may send about the
\* model po: bytes that do not unmarshal, a request without a document, a
\* document without a body, and po packed
AnchorRequestInputs(po) ==
    { Nil, << [Document |-> Nil] >>,
      << [Document |-> << [PurchaseOrderPackCoreDocument(po).cd
                              EXCEPT !.EmbeddedData = Nil] >>] >>,
      << [Document |-> << PurchaseOrderPackCoreDocument(po).cd >>] >> }

\* the accounts of the context and the senders of a message that passed
\* the interceptor
PeerCallInputs == { c \in ServiceCallInputs : c.present }

\* msg.Body of a GetDocument message: bytes that do not unmarshal, or a
\* request for the document of po or for an unknown one, with each access type
GetDocumentRequestInputs(po) ==
    { Nil }
      \cup { << [DocumentIdentifier |-> id, AccessType |-> t,
                 NftRegistryAddress |-> RegistryAddr(1), NftTokenId |-> TokenID(1)] >> :
                id \in { po.CoreDocument.DocumentIdentifier, RandomSlice("unknown") },
                t \in AccessTypeInputs }

\* the copies of a version a sender can deliver: the version itself, the
\* version with one more signature, and the version with one more read rule
\* and its signing root calculated again
ReceivedCopyInputs(po, k) ==
    LET cd == po.CoreDocument
        ruled == addNFTToReadRules(cd, RegistryAddr(1), TokenID(1), k).doc
    IN  { [kind |-> "same", model |-> po],
          [kind |-> "signed",
           model |-> [po EXCEPT !.CoreDocument =
                         AppendSignatures(cd, << SignMsg(DIDBytes(2), cd.SigningRoot) >>)]],
          [kind |-> "ruled",
           model |-> [po EXCEPT !.CoreDocument =
                         CalculateSigningRoot(ruled, PurchaseOrderDataTypeUrl).doc]] }

\* the answers of the anchor registry for a delivered copy: the root of the
\* copy, no anchor, and the root of the record already stored for the version
StoredAnchorInputs(r, cd, k) ==
    { a \in AnchorInputs(cd, k) : a.root \in { Nil, CalculateDocumentRoot(cd, k).doc.DocumentRoot } }
      \cup { [err |-> "", root |-> r[v].CoreDocument.DocumentRoot] :
                v \in { x \in DOMAIN r : x = cd.CurrentVersion } }

\* the error of GetConfig and PrepareP2PEnvelope: none, or a failure
ReplyInputs == { "", "failed to get config" }

----------------------------------------------------------------------------
(* Identity factory *)

\* the address of the factory contract
factoryAddress == << "factory" >>

\* CalculateCreatedAddress(address, nonce): crypto.CreateAddress
CalculateCreatedAddress(address, nonce) == << "created", address, nonce >>

\* a CreateIdentity call that is not running
IdleCall ==
    [pc |-> "idle", calc |-> Nil, txID |-> 0, done |-> FALSE, did |-> Nil, err |-> ""]

\* a CreateIdentity call that returned
returnedCall(call, did, err) ==
    [call EXCEPT !.pc = "returned", !.did = did, !.err = err]

\* CreateIdentity up to CalculateIdentityAddress: the account and the
\* transaction options are read, then the address is calculated from the
\* nonce the factory has at that moment
createIdentityCalculate(e, c, optsErr, nonceErr) ==
    IF optsErr # ""
    THEN [e EXCEPT !.calls[c] = returnedCall(IdleCall, Nil, optsErr)]
    ELSE IF nonceErr # ""
    THEN [e EXCEPT !.calls[c] = returnedCall(IdleCall, Nil, nonceErr)]
    ELSE [e EXCEPT !.calls[c] =
             [IdleCall EXCEPT !.pc = "calculated",
                              !.calc = CalculateCreatedAddress(factoryAddress, e.nonce)]]

\* txManager.ExecuteWithinTX with createIdentityTX: the transaction is kept
\* under the calculated DID and a new transaction id; when it is mined the
\* factory creates the identity at the address of its nonce at that moment
\* and the value of the IdentityCreated event is kept with the transaction
createIdentityExecute(e, c, mined) ==
    LET txID == e.txCount + 1
        addr == CalculateCreatedAddress(factoryAddress, e.nonce)
        call == e.calls[c]
    IN  IF mined
        THEN [e EXCEPT !.nonce = @ + 1,
                       !.created = @ \cup { addr },
                       !.events = @ \cup { [tx |-> txID, addr |-> addr] },
                       !.txs = @ \cup { [account |-> call.calc, txID |-> txID,
                                         values |-> << addr >>] },
                       !.txCount = txID,
                       !.calls[c] = [call EXCEPT !.pc = "executed", !.txID = txID,
                                                 !.done = TRUE]]
        ELSE [e EXCEPT !.txs = @ \cup { [account |-> call.calc, txID |-> txID,
                                         values |-> Nil] },
                       !.txCount = txID,
                       !.calls[c] = [call EXCEPT !.pc = "executed", !.txID = txID,
                                                 !.done = FALSE]]

\* txManager.GetTransaction(accountID, txID): the transactions kept under
\* the two keys
GetTransaction(e, accountID, txID) ==
    { tx \in e.txs : tx.account = accountID /\ tx.txID = txID }

\* IdentityExists(did): factoryContract.CreatedIdentity
IdentityExists(e, addr) == addr \in e.created

\* what CreateIdentity returns with the calculated address in place of the
\* value of the event
createIdentityReturn_Calculated(e, call, tx, existsErr) ==
    IF ~call.done
    THEN returnedCall(call, Nil, "Create Identity TX failed")
    ELSE returnedCall(call, call.calc, "")

\* what CreateIdentity returns after the transaction tx is done
createIdentityReturn(e, call, tx, existsErr) ==
    IF ~call.done
    THEN returnedCall(call, Nil, "Create Identity TX failed")
    ELSE IF tx = {}
    THEN returnedCall(call, Nil, "transaction not found")
    ELSE IF \A t \in tx : t.values = Nil
    THEN returnedCall(call, Nil, "Couldn't find value for IdentityCreated(address)")
    ELSE IF existsErr # ""
    THEN returnedCall(call, Nil, existsErr)
    ELSE IF \E t \in tx : ~IdentityExists(e, t.values[1])
    THEN returnedCall(call, Nil, "Identity not found in factory registry")
    ELSE returnedCall(call, (CHOOSE t \in tx : TRUE).values[1], "")

\* CreateIdentity from `isDone := <-done` to its return
createIdentityFinish(e, c, existsErr) ==
    [e EXCEPT !.calls[c] =
        createIdentityReturn(e, e.calls[c],
                             GetTransaction(e, e.calls[c].calc, e.calls[c].txID),
                             existsErr)]

----------------------------------------------------------------------------
(* State machine: a caller holds a purchase order p; it creates the first   *)
(* version, computes roots, collects signatures and derives new versions.  *)

Call(op, err, args) == [op |-> op, err |-> err, args |-> args]

\* the identity factory before any identity was created: the nonce of the
\* contract, the addresses it reports as created, the IdentityCreated events
\* by transaction, the transactions the node keeps, and the calls
EmptyEth ==
    [nonce |-> 1, created |-> {}, events |-> {}, txs |-> {}, txCount |-> 0,
     calls |-> [c \in 1..NumCreators |-> IdleCall]]

\* the anchor registry before any anchor: the pre-commits, the commits, and
\* no processor call waiting
EmptyAnchors == [pre |-> {}, commits |-> {}, wait |-> Nil]

\* a store that holds nothing
EmptyRepo == [version \in {} |-> NoModel]

Init ==
    /\ p = NoModel
    /\ old = EmptyDoc
    /\ v0 = EmptyDoc
    /\ n = 0
    /\ last = Call("none", "", <<>>)
    /\ repo = EmptyRepo
    /\ eth = EmptyEth
    /\ anchors = EmptyAnchors

\* a call on p.CoreDocument that returns a new version (or an error and nil);
\* the model then holds the new version
Derived(op, result, args) ==
    IF result.err = ""
    THEN /\ p' = [p EXCEPT !.CoreDocument = result.doc]
         /\ old' = p.CoreDocument
         /\ n' = n + 1
         /\ last' = Call(op, "", args)
         /\ UNCHANGED <<v0, repo, eth, anchors>>
    ELSE /\ last' = Call(op, result.err, args)
         /\ UNCHANGED <<p, old, v0, n, repo, eth, anchors>>

\* a method that changes p.CoreDocument in place
Mutated(op, doc, err, args) ==
    /\ p' = [p EXCEPT !.CoreDocument = doc]
    /\ last' = Call(op, err, args)
    /\ UNCHANGED <<old, v0, n, repo, eth, anchors>>

\* a method of the model that writes the model in place
MutatedModel(op, po, err, args) ==
    /\ p' = po
    /\ last' = Call(op, err, args)
    /\ UNCHANGED <<old, v0, n, repo, eth, anchors>>

\* NewCoreDocumentWithCollaborators, as PurchaseOrder.InitPurchaseOrderInput
\* calls it for a new purchase order
DoNewCoreDocumentWithCollaborators ==
    \E cs \in CollaboratorInputs :
        LET res == NewCoreDocumentWithCollaborators(cs, compactPrefix, 1)
        IN  /\ n = 0
            /\ last' = Call("NewCoreDocumentWithCollaborators", res.err,
                            [collaborators |-> cs])
            /\ IF res.err = ""
               THEN /\ p' = [p EXCEPT !.CoreDocument = res.doc]
                    /\ v0' = res.doc
                    /\ n' = 1
                    /\ UNCHANGED <<old, repo, eth, anchors>>
               ELSE UNCHANGED <<p, old, v0, n, repo, eth, anchors>>

\* PurchaseOrder.UnpackCoreDocument of p's own packed form come back from a
\* peer; the peer may have cut the document root short
DoUnpackCoreDocument ==
    \E cut \in BOOLEAN :
        LET packed == PurchaseOrderPackCoreDocument(p).cd
            wire == IF cut
                    THEN [packed EXCEPT !.DocumentRoot = Truncate31(@)]
                    ELSE packed
            res == PurchaseOrderUnpackCoreDocument(NoModel, wire)
        IN  /\ n > 0
            /\ cut => ByteLen(p.CoreDocument.DocumentRoot) = idSize
            /\ MutatedModel("UnpackCoreDocument", res.p, res.err, [cut |-> cut])

DoInitReadRules ==
    \E cs \in DIDListInputs :
        /\ n > 0
        /\ Mutated("initReadRules", initReadRules(p.CoreDocument, cs, n), "",
                   [collaborators |-> cs])

DoSetDataRoot ==
    \E dr \in DataRootInputs(p) :
        /\ n > 0
        /\ Mutated("SetDataRoot", SetDataRoot(p.CoreDocument, dr), "", <<>>)

DoCalculateSigningRoot ==
    LET res == CalculateSigningRoot(p.CoreDocument, PurchaseOrderDataTypeUrl)
    IN  /\ n > 0
        /\ Mutated("CalculateSigningRoot", res.doc, res.err, <<>>)

DoAppendSignatures ==
    \E sig \in SignatureInputs(Len(p.CoreDocument.Signatures)) :
        /\ n > 0
        /\ Len(p.CoreDocument.Signatures) < MaxSigs
        /\ Mutated("AppendSignatures", AppendSignatures(p.CoreDocument, <<sig>>), "", <<>>)

\* the signatures of the collaborators over the signing root come back from
\* the peers and are appended one by one, in any order, some of them twice
DoAppendSignaturesOfPeers ==
    \E sig \in PeerSignatureInputs(p.CoreDocument) :
        /\ n > 0
        /\ Len(p.CoreDocument.Signatures) <= MaxSigs
        /\ Mutated("AppendSignatures", AppendSignatures(p.CoreDocument, <<sig>>), "",
                   [sig |-> sig])

\* PurchaseOrder.CreateProofs(fields); the call sets the salts of the
\* signatures when the version has none
DoCreateProofs ==
    \E fields \in FieldListInputs :
        LET res == PurchaseOrderCreateProofs(p, fields, n)
        IN  /\ n > 0
            /\ p' = [withDocumentDataTree(p) EXCEPT !.CoreDocument = res.doc]
            /\ last' = [op |-> "CreateProofs", err |-> res.err,
                        args |-> [fields |-> fields], prfs |-> res.prfs]
            /\ UNCHANGED <<old, v0, n, repo, eth, anchors>>

\* defaultProcessor.PrepareForSignatureRequests: the processor signs a
\* version once
DoPrepareForSignatureRequests ==
    \E self \in AccountInputs :
        LET res == PrepareForSignatureRequests(p, self,
                       Now(n, Len(p.CoreDocument.Signatures)))
        IN  /\ n > 0
            /\ p.CoreDocument.Signatures = <<>>
            /\ MutatedModel("PrepareForSignatureRequests", res.p, res.err,
                            [self |-> self])

DoCalculateDocumentRoot ==
    LET res == CalculateDocumentRoot(p.CoreDocument, n)
    IN  /\ n > 0
        /\ Mutated("CalculateDocumentRoot", res.doc, res.err, <<>>)

\* PurchaseOrder.PrepareNewVersion with the new collaborators taken from css
\* and the body from datas
PrepareNewVersionFrom(css, datas) ==
    \E cs \in css, data \in datas :
        LET res == PurchaseOrderPrepareNewVersion(p, data, cs, n + 1)
        IN  /\ n > 0
            /\ n < MaxVersions
            /\ last' = Call("PrepareNewVersion", res.err,
                            [collaborators |-> cs, data |-> data])
            /\ IF res.err = ""
               THEN /\ p' = res.p
                    /\ old' = p.CoreDocument
                    /\ n' = n + 1
                    /\ UNCHANGED <<v0, repo, eth, anchors>>
               ELSE UNCHANGED <<p, old, v0, n, repo, eth, anchors>>

\* a new version that keeps the body of the version it is made from
DoPrepareNewVersion ==
    PrepareNewVersionFrom(CollaboratorInputs, { createP2PProtobuf(p) })

DoAddNFT ==
    \E grant \in BOOLEAN, registry \in RegistryInputs, tokenID \in TokenInputs(n + 1) :
        LET res == PurchaseOrderAddNFT(p, grant, registry, tokenID, n + 1)
        IN  /\ n > 0
            /\ n < MaxVersions
            /\ Derived("AddNFT", [err |-> res.err, doc |-> res.p.CoreDocument],
                       [grantReadAccess |-> grant, registry |-> registry,
                        tokenID |-> tokenID])

DoAddAccessToken ==
    \E grantee \in { AddrString(1, "lower"), BadString } :
        /\ n > 0
        /\ n < MaxVersions
        /\ Derived("AddAccessToken",
                   AddAccessToken(p.CoreDocument, DIDBytes(1), grantee, n + 1),
                   [grantee |-> grantee])

\* addNFTToReadRules called on the version in place
DoAddNFTToReadRules ==
    \E registry \in RegistryInputs, tokenID \in ReadTokenInputs :
        LET cd == p.CoreDocument
            res == addNFTToReadRules(cd, registry, tokenID, n)
        IN  /\ n > 0
            /\ Len(SelectSeq(cd.Roles, LAMBDA role : role.Nfts # <<>>)) < MaxNFTRoles
            /\ Mutated("addNFTToReadRules", res.doc, res.err,
                       [registry |-> registry, tokenID |-> tokenID])

\* a peer's GetDocument request checked against the version held
DoValidateDocumentAccess ==
    \E accessType \in AccessTypeInputs, owner \in OwnerOfInputs,
       registry \in RegistryInputs, tokenID \in RequestTokenInputs,
       peer \in PeerInputs :
        /\ n > 0
        /\ last' = Call("validateDocumentAccess",
                        validateDocumentAccess(p.CoreDocument, accessType, owner,
                                               registry, tokenID, peer),
                        [accessType |-> accessType, owner |-> owner,
                         registry |-> registry, tokenID |-> tokenID, peer |-> peer])
        /\ UNCHANGED <<p, old, v0, n, repo, eth, anchors>>

\* an update of the purchase order: the next version, with a body and
\* collaborators of the author's choice
DoUpdate ==
    n < MaxRootVersions /\ PrepareNewVersionFrom(UpdateCollaboratorInputs, PoDataInputs)

\* a peer asks the receiving node to sign the version p
DoRequestDocumentSignature ==
    \E call \in ServiceCallInputs :
        LET res == RequestDocumentSignature(repo, call.self, call.present, p,
                                            call.collaborator)
        IN  /\ n > 0
            /\ Len(p.CoreDocument.Signatures) <= MaxSigs
            /\ last' = [op |-> "RequestDocumentSignature", err |-> res.err,
                        args |-> call, why |-> res.why, sig |-> res.sig]
            /\ repo' = res.repo
            /\ p' = IF res.err = "" THEN res.model ELSE p
            /\ UNCHANGED <<old, v0, n, eth, anchors>>

\* a peer delivers the anchored version p to the receiving node
DoReceiveAnchoredDocument ==
    \E call \in ServiceCallInputs, anchor \in AnchorInputs(p.CoreDocument, n) :
        LET res == ReceiveAnchoredDocument(repo, call.self, call.present, p,
                                           call.collaborator, anchor, n)
        IN  /\ n > 0
            /\ last' = [op |-> "ReceiveAnchoredDocument", err |-> res.err,
                        args |-> [call |-> call, anchor |-> anchor],
                        why |-> res.why, sig |-> res.sig]
            /\ repo' = res.repo
            /\ UNCHANGED <<p, old, v0, n, eth, anchors>>

\* a second caller that still holds the version p was made from prepares
\* its own next version of it; the version it gets is kept with the call
DoPrepareNewVersionFromBase ==
    \E cs \in UpdateCollaboratorInputs :
        \E res \in { PrepareNewVersion(old, cs, TRUE, compactPrefix,
                                       << n, "second" >>) } :
            /\ n > 1
            /\ p.CoreDocument.PreviousVersion = old.CurrentVersion
            /\ last' = [op |-> "PrepareNewVersionFromBase", err |-> res.err,
                        args |-> [collaborators |-> cs], doc |-> res.doc]
            /\ UNCHANGED <<p, old, v0, n, repo, eth, anchors>>

\* GetCurrentVersion is running and has not returned
Walking == last.op = "GetCurrentVersion" /\ last.walking

\* testRepo().Create(accountID, version, model) of a version of the document
\* StoredVersion(1), as the tests of the service fill the store
DoReceiveAnchoredDocumentCopy ==
    \E call \in { c \in PeerCallInputs : c.self # Nil },
       copy \in ReceivedCopyInputs(p, n) :
        \E anchor \in StoredAnchorInputs(repo, copy.model.CoreDocument, n) :
            \E res \in { ReceiveAnchoredDocument(repo, call.self, call.present,
                                                  copy.model, call.collaborator,
                                                  anchor, n) } :
                /\ n > 0
                /\ last' = [op |-> "ReceiveAnchoredDocument", err |-> res.err,
                            args |-> [anchor |-> anchor, copy |-> copy.kind],
                            why |-> res.why, sig |-> res.sig]
                /\ repo' = res.repo
                /\ UNCHANGED <<p, old, v0, n, eth, anchors>>

DoHandleGetDocument ==
    \E body \in GetDocumentRequestInputs(p), requester \in PeerInputs,
       nc \in ReplyInputs :
        \E res \in { HandleGetDocument(repo, body, requester,
                                       [err |-> "", addr |-> requester], nc) } :
            /\ n > 0
            /\ last' = [op |-> "HandleGetDocument", err |-> res.err.msg,
                        args |-> [body |-> body, requester |-> requester, nc |-> nc],
                        why |-> res.why, envelope |-> res.envelope]
            /\ UNCHANGED <<p, old, v0, n, repo, eth, anchors>>

\* the call of PrepareForSignatureRequests that fails ("": none)
StepFailureInputs ==
    { "", "CalculateDataRoot", "GetIdentityID", "AddUpdateLog",
      "CalculateSigningRoot", "SignMsg" }

DoPrepareForSignatureRequestsWith ==
    \E self \in AccountInputs, fail \in StepFailureInputs :
        \E res \in { PrepareForSignatureRequestsWith(p, self,
                          Now(n, Len(p.CoreDocument.Signatures)), fail) } :
            /\ n > 0
            /\ Len(p.CoreDocument.Signatures) < MaxSigs
            /\ MutatedModel("PrepareForSignatureRequests", res.p, res.err,
                            [self |-> self, fail |-> fail])

\* what GetSignaturesForDocument returns: the signatures of the peers that
\* answered, the number of peers that failed, and its own error
CollectionInputs(cd) ==
    { [signs |-> s, errs |-> k, err |-> e] :
        s \in { <<>> } \cup { << sig >> : sig \in PeerSignatureInputs(cd) },
        k \in 0..1, e \in { "", "p2p client failed" } }

DoRequestSignatures ==
    \E c \in CollectionInputs(p.CoreDocument) :
        \E res \in { RequestSignatures(p, c.signs, c.err) } :
            /\ n > 0
            /\ Len(p.CoreDocument.Signatures) <= MaxSigs
            /\ p' = res.p
            /\ last' = [op |-> "RequestSignatures", err |-> res.err, args |-> c,
                        why |-> res.why, contacted |-> res.contacted]
            /\ UNCHANGED <<old, v0, n, repo, eth, anchors>>

\* a processor call waits for the completion signal of the anchor repository
Waiting == anchors.wait # Nil

\* what PreCommitAnchor and CommitAnchor return: no error and a channel, or
\* an error with a channel that will deliver false or with no channel
SubmissionInputs ==
    { [err |-> "", chan |-> "open"],
      [err |-> "failed to submit", chan |-> "open"],
      [err |-> "failed to submit", chan |-> "nil"] }

\* a processor call up to its wait on the completion channel
Submit(op, res, k) ==
    /\ p' = res.p
    /\ last' = [op |-> op, err |-> res.err, args |-> << k >>, req |-> res.req,
                waiting |-> res.req # Nil]
    /\ \E answer \in SubmissionInputs :
           anchors' = IF res.req = Nil THEN anchors
                      ELSE submitAnchor(anchors, res.req[1], answer)
    /\ UNCHANGED <<old, v0, n, repo, eth>>

DoPreAnchorDocument ==
    \E res \in { PreAnchorDocument(p) } :
        /\ n > 0
        /\ ~Waiting
        /\ Submit("PreAnchorDocument", res, n)

DoAnchorDocument ==
    \E res \in { AnchorDocument(p, n) } :
        /\ n > 0
        /\ ~Waiting
        /\ Submit("AnchorDocument", res, n)

\* the completion channel delivers and the waiting call returns
DoAnchorCompleted ==
    \E isDone \in BOOLEAN :
        /\ Waiting
        /\ anchors.wait[1].chan = "open"
        /\ isDone => canComplete(anchors)
        /\ anchors' = completeAnchor(anchors, isDone)
        /\ last' = [last EXCEPT !.err = anchorReturn(anchors.wait[1].req, isDone),
                                !.waiting = FALSE]
        /\ UNCHANGED <<p, old, v0, n, repo, eth>>

\* a document of another author as it arrives from a peer: the signing
\* collaborators, and one more collaborator who may only read
ReceivedDocument ==
    LET cd == NewCoreDocumentWithCollaborators(
                  [d \in 1..(NumDIDs + 1) |-> AddrString(d, "lower")],
                  compactPrefix, 1).doc
        reader == [newRole(<<1, "reader">>) EXCEPT
                      !.Collaborators = << DIDBytes(NumDIDs + 2) >>]
    IN  addNewReadRule([cd EXCEPT !.Roles = Append(@, reader)], reader.RoleKey, READ)

\* what the peers answer to SendAnchoredDocument: accepted, not accepted,
\* or an error
DeliveryInputs ==
    { [err |-> "", accepted |-> TRUE],
      [err |-> "", accepted |-> FALSE],
      [err |-> "peer failed", accepted |-> FALSE] }

\* the replies to the deliveries of one SendDocument call, by position
RepliesInputs(cd) == [1..Len(GetCollaborators(cd)) -> DeliveryInputs]

\* UnpackCoreDocument of a document received from a peer gives the first
\* version the node holds
DoUnpackReceivedDocument ==
    \E res \in { PurchaseOrderUnpackCoreDocument(NoModel,
                     PurchaseOrderPackCoreDocument(
                         [NoModel EXCEPT !.CoreDocument = ReceivedDocument]).cd) } :
        /\ n = 0
        /\ res.err = ""
        /\ p' = res.p
        /\ v0' = res.p.CoreDocument
        /\ n' = 1
        /\ last' = Call("UnpackCoreDocument", res.err, <<>>)
        /\ UNCHANGED <<old, repo, eth, anchors>>

DoSendDocument ==
    \E self \in AccountInputs, replies \in RepliesInputs(p.CoreDocument) :
        \E res \in { SendDocument(anchors, p, self, replies, n) } :
            /\ n > 0
            /\ ~Waiting
            /\ p' = res.p
            /\ last' = [op |-> "SendDocument", err |-> res.err,
                        args |-> [self |-> self, replies |-> replies],
                        sent |-> res.sent, errs |-> res.errs]
            /\ UNCHANGED <<old, v0, n, repo, eth, anchors>>

\* the root fields a peer can leave out of a document it sends
MissingRootInputs == { "DataRoot", "SigningRoot" }

\* UnpackCoreDocument of the document as a peer sends it back with one of
\* its roots left out
DoUnpackCoreDocumentWithout ==
    \E root \in MissingRootInputs :
        \E res \in { PurchaseOrderUnpackCoreDocument(NoModel,
                         [PurchaseOrderPackCoreDocument(p).cd EXCEPT ![root] = Nil]) } :
            /\ n > 0
            /\ MutatedModel("UnpackCoreDocument", res.p, res.err, [without |-> root])

\* what the token registry answers to OwnerOf: the requester, somebody else,
\* or an error
OwnerInputs(requester) ==
    { [err |-> "", addr |-> requester],
      [err |-> "", addr |-> DIDBytes(NumDIDs + 1)],
      [err |-> "failed to get owner", addr |-> Nil] }

\* the GetDocument handler with a token registry that answers freely
DoHandleGetDocumentOwned ==
    \E body \in GetDocumentRequestInputs(p), requester \in PeerInputs :
        \E owner \in OwnerInputs(requester) :
            \E res \in { HandleGetDocument(repo, body, requester, owner, "") } :
                /\ n > 0
                /\ last' = [op |-> "HandleGetDocument", err |-> res.err.msg,
                            args |-> [body |-> body, requester |-> requester,
                                      owner |-> owner],
                            why |-> res.why, envelope |-> res.envelope]
                /\ UNCHANGED <<p, old, v0, n, repo, eth, anchors>>

\* errors of the Ethereum client of a CreateIdentity call
ClientErrorInputs == { "", "ethereum client failed" }

DoCreateIdentityCalculate ==
    \E c \in 1..NumCreators, optsErr \in ClientErrorInputs,
       nonceErr \in ClientErrorInputs :
        /\ eth.calls[c].pc \in { "idle", "returned" }
        /\ eth.txCount + Cardinality({ d \in 1..NumCreators :
                                         eth.calls[d].pc = "calculated" }) < MaxTx
        /\ eth' = createIdentityCalculate(eth, c, optsErr, nonceErr)
        /\ UNCHANGED <<p, old, v0, n, last, repo, anchors>>

DoCreateIdentityExecute ==
    \E c \in 1..NumCreators, mined \in BOOLEAN :
        /\ eth.calls[c].pc = "calculated"
        /\ eth' = createIdentityExecute(eth, c, mined)
        /\ UNCHANGED <<p, old, v0, n, last, repo, anchors>>

DoCreateIdentityFinish ==
    \E c \in 1..NumCreators, existsErr \in ClientErrorInputs :
        /\ eth.calls[c].pc = "executed"
        /\ eth' = createIdentityFinish(eth, c, existsErr)
        /\ UNCHANGED <<p, old, v0, n, last, repo, anchors>>

DoCreateStored ==
    \E version \in StoredVersionInputs, next \in NextVersionInputs :
        \E res \in { repoCreate(repo, version,
                                [NoModel EXCEPT !.CoreDocument =
                                    NewCoreDocumentFromProtobuf(
                                        [EmptyDoc EXCEPT
                                            !.DocumentIdentifier = StoredVersion(1),
                                            !.CurrentVersion = version,
                                            !.NextVersion = next])]) } :
            /\ ~Walking
            /\ repo' = res.repo
            /\ last' = Call("Create", res.err, [version |-> version, next |-> next])
            /\ UNCHANGED <<p, old, v0, n, eth, anchors>>

\* the walk w of GetCurrentVersion(documentID) as the state of the call
WalkCall(documentID, w) ==
    [op |-> "GetCurrentVersion", err |-> w.err, args |-> [documentID |-> documentID],
     walking |-> w.walking, at |-> w.at, seen |-> w.seen, model |-> w.model]

\* service.GetCurrentVersion(ctx, documentID) is called; the store is not
\* written while the call runs
DoGetCurrentVersion ==
    \E documentID \in DocumentIDInputs :
        /\ ~Walking
        /\ last' = WalkCall(documentID, getCurrentVersionStart(repo, documentID))
        /\ UNCHANGED <<p, old, v0, n, repo, eth, anchors>>

\* one turn of the loop of the running GetCurrentVersion
DoGetCurrentVersionStep ==
    /\ Walking
    /\ last' = WalkCall(last.args.documentID, getCurrentVersionStep(repo, last))
    /\ UNCHANGED <<p, old, v0, n, repo, eth, anchors>>

\* a peer sends the anchored version p to the receiving node
DoHandleSendAnchoredDocument ==
    \E call \in PeerCallInputs, body \in AnchorRequestInputs(p),
       anchor \in AnchorInputs(p.CoreDocument, n), nc \in ReplyInputs :
        \E res \in { HandleSendAnchoredDocument(repo, call.self, body,
                                                call.collaborator, anchor, n, nc) } :
            /\ n > 0
            /\ last' = [op |-> "HandleSendAnchoredDocument", err |-> res.err.msg,
                        args |-> [call |-> call, body |-> body, anchor |-> anchor,
                                  nc |-> nc],
                        why |-> res.why, envelope |-> res.envelope]
            /\ repo' = res.repo
            /\ UNCHANGED <<p, old, v0, n, eth, anchors>>

Next ==
    \/ DoNewCoreDocumentWithCollaborators
    \/ DoPrepareNewVersionFromBase
    \/ DoHandleGetDocument
    \/ DoCreateIdentityCalculate
    \/ DoCreateIdentityExecute
    \/ DoCreateIdentityFinish
    \/ DoPrepareForSignatureRequestsWith
    \/ DoRequestSignatures
    \/ DoHandleSendAnchoredDocument
    \/ DoCreateStored
    \/ DoGetCurrentVersion
    \/ DoGetCurrentVersionStep
    \/ DoUnpackCoreDocument
    \/ DoInitReadRules
    \/ DoSetDataRoot
    \/ DoCalculateSigningRoot
    \/ DoAppendSignatures
    \/ DoCalculateDocumentRoot
    \/ DoPrepareNewVersion
    \/ DoAddNFT
    \/ DoPrepareForSignatureRequests
    \/ DoAddAccessToken
    \/ DoAddNFTToReadRules
    \/ DoValidateDocumentAccess
    \/ DoUpdate
    \/ DoRequestDocumentSignature
    \/ DoReceiveAnchoredDocument
    \/ DoReceiveAnchoredDocumentCopy
    \/ DoAppendSignaturesOfPeers
    \/ DoCreateProofs
    \/ DoPreAnchorDocument
    \/ DoAnchorDocument
    \/ DoAnchorCompleted
    \/ DoUnpackReceivedDocument
    \/ DoSendDocument
    \/ DoHandleGetDocumentOwned
    \/ DoUnpackCoreDocumentWithout

Spec == Init /\ [][Next]_vars

\* the access side: versions signed by the processor, rooted, and derived by
\* every operation that makes a new version
NextAccess ==
    \/ DoNewCoreDocumentWithCollaborators
    \/ DoInitReadRules
    \/ DoPrepareForSignatureRequests
    \/ DoCalculateDocumentRoot
    \/ DoPrepareNewVersion
    \/ DoAddNFT
    \/ DoAddAccessToken

SpecAccess == Init /\ [][NextAccess]_vars

\* the roots side: the root methods called one by one in any order, a round
\* trip through a peer, and new versions prepared from the result
NextRoots ==
    \/ DoNewCoreDocumentWithCollaborators
    \/ DoUnpackCoreDocument
    \/ DoSetDataRoot
    \/ DoCalculateSigningRoot
    \/ DoAppendSignatures
    \/ DoCalculateDocumentRoot
    \/ (n < MaxRootVersions /\ DoPrepareNewVersion)

SpecRoots == Init /\ [][NextRoots]_vars

\* the read side: a first version, NFTs given read access on it, and peers
\* asking for it
NextRead ==
    \/ DoNewCoreDocumentWithCollaborators
    \/ DoAddNFTToReadRules
    \/ DoValidateDocumentAccess

SpecRead == Init /\ [][NextRead]_vars

\* the signatures of one version: its roots are calculated while the
\* signatures of the collaborators arrive
NextSignatures ==
    \/ DoNewCoreDocumentWithCollaborators
    \/ DoSetDataRoot
    \/ DoCalculateSigningRoot
    \/ DoAppendSignaturesOfPeers
    \/ DoCalculateDocumentRoot

SpecSignatures == Init /\ [][NextSignatures]_vars

\* proofs: a version is signed, further signatures arrive, its document root
\* is calculated and proofs of its fields are asked for
NextProofs ==
    \/ DoNewCoreDocumentWithCollaborators
    \/ DoPrepareForSignatureRequests
    \/ DoAppendSignaturesOfPeers
    \/ DoCalculateDocumentRoot
    \/ DoCreateProofs

SpecProofs == Init /\ [][NextProofs]_vars

\* the receiving side: an author makes versions of a purchase order, and
\* peers ask the receiving node to sign them and deliver them anchored
NextReceive ==
    \/ DoNewCoreDocumentWithCollaborators
    \/ DoPrepareForSignatureRequests
    \/ DoRequestDocumentSignature
    \/ DoCalculateDocumentRoot
    \/ DoReceiveAnchoredDocument
    \/ DoUpdate

SpecReceive == Init /\ [][NextReceive]_vars

\* the peer side: a version is signed by its author, a peer asks the node to
\* sign it, its document root is calculated, and peers send it as anchored
NextAnchored ==
    \/ DoNewCoreDocumentWithCollaborators
    \/ DoPrepareForSignatureRequests
    \/ DoRequestDocumentSignature
    \/ DoCalculateDocumentRoot
    \/ DoReceiveAnchoredDocumentCopy
    \/ (n < MaxRootVersions /\ DoPrepareNewVersion)

SpecAnchored == Init /\ [][NextAnchored]_vars

NextGet ==
    \/ DoNewCoreDocumentWithCollaborators
    \/ DoPrepareForSignatureRequests
    \/ DoRequestDocumentSignature
    \/ DoHandleGetDocument

SpecGet == Init /\ [][NextGet]_vars

\* the same with versions that bind an NFT to a read rule
NextGetNFT ==
    \/ DoNewCoreDocumentWithCollaborators
    \/ DoAddNFTToReadRules
    \/ DoPrepareForSignatureRequests
    \/ DoRequestDocumentSignature
    \/ DoHandleGetDocumentOwned

SpecGetNFT == Init /\ [][NextGetNFT]_vars

NextIdentity ==
    \/ DoCreateIdentityCalculate
    \/ DoCreateIdentityExecute
    \/ DoCreateIdentityFinish

SpecIdentity == Init /\ [][NextIdentity]_vars

NextPrepare ==
    \/ DoNewCoreDocumentWithCollaborators
    \/ DoPrepareForSignatureRequestsWith
    \/ DoCalculateDocumentRoot
    \/ DoUpdate

SpecPrepare == Init /\ [][NextPrepare]_vars

NextCollect ==
    \/ DoNewCoreDocumentWithCollaborators
    \/ DoSetDataRoot
    \/ DoCalculateSigningRoot
    \/ DoPrepareForSignatureRequests
    \/ DoRequestSignatures

SpecCollect == Init /\ [][NextCollect]_vars

\* the anchoring calls of the processor, in any order, one at a time
NextAnchor ==
    \/ DoNewCoreDocumentWithCollaborators
    \/ ~Waiting /\ DoInitReadRules
    \/ ~Waiting /\ DoPrepareForSignatureRequests
    \/ DoPreAnchorDocument
    \/ DoAnchorDocument
    \/ DoAnchorCompleted

SpecAnchor == Init /\ [][NextAnchor]_vars

\* a completion channel that is not nil delivers in the end
SpecAnchorLive == SpecAnchor /\ WF_vars(DoAnchorCompleted)

\* the author's pipeline in its order: a version is prepared once, then
\* pre-anchored, given the signatures of the collaborators and anchored;
\* then the next version
NextPipeline ==
    \/ DoNewCoreDocumentWithCollaborators
    \/ ~Waiting /\ DoPrepareForSignatureRequests
    \/ p.CoreDocument.Signatures # <<>> /\ DoPreAnchorDocument
    \/ ~Waiting /\ p.CoreDocument.Signatures # <<>> /\ DoAppendSignaturesOfPeers
    \/ p.CoreDocument.Signatures # <<>> /\ DoAnchorDocument
    \/ DoAnchorCompleted
    \/ ~Waiting /\ n < MaxRootVersions /\ DoPrepareNewVersion

SpecPipeline == Init /\ [][NextPipeline]_vars

\* the delivery of anchored documents: own documents and received ones are
\* prepared, anchored and sent
NextDeliver ==
    \/ DoNewCoreDocumentWithCollaborators
    \/ DoUnpackReceivedDocument
    \/ ~Waiting /\ DoPrepareForSignatureRequests
    \/ DoAnchorDocument
    \/ DoAnchorCompleted
    \/ DoSendDocument

SpecDeliver == Init /\ [][NextDeliver]_vars

\* the root calculations and the proofs in any order, on documents that may
\* have lost a root on the way
NextOrder ==
    \/ DoNewCoreDocumentWithCollaborators
    \/ DoSetDataRoot
    \/ DoCalculateSigningRoot
    \/ DoCalculateDocumentRoot
    \/ DoCreateProofs
    \/ DoUnpackCoreDocumentWithout

SpecOrder == Init /\ [][NextOrder]_vars

NextPeer ==
    \/ DoNewCoreDocumentWithCollaborators
    \/ DoPrepareForSignatureRequests
    \/ DoRequestDocumentSignature
    \/ DoCalculateDocumentRoot
    \/ DoHandleSendAnchoredDocument

SpecPeer == Init /\ [][NextPeer]_vars

\* two callers derive the next version of one version: the version is
\* rooted, the first caller prepares and roots its next version, and the
\* second caller prepares another from the same version
NextDerive ==
    \/ DoNewCoreDocumentWithCollaborators
    \/ DoSetDataRoot
    \/ DoCalculateSigningRoot
    \/ DoCalculateDocumentRoot
    \/ (n < MaxRootVersions /\ DoPrepareNewVersion)
    \/ DoPrepareNewVersionFromBase

SpecDerive == Init /\ [][NextDerive]_vars

\* the store: versions are written to it directly, with any next version,
\* and GetCurrentVersion walks them
NextStore ==
    \/ DoCreateStored
    \/ DoGetCurrentVersion
    \/ DoGetCurrentVersionStep

SpecStore == Init /\ [][NextStore]_vars

\* a call of GetCurrentVersion that can take its next turn takes it
SpecStoreLive == SpecStore /\ WF_vars(DoGetCurrentVersionStep)

----------------------------------------------------------------------------
(* Version lineage *)

\* C1: in a chain made by successive PrepareNewVersion calls, each version's
\* previous version is its predecessor's current version, its current version
\* is the predecessor's next version, its current preimage is the
\* predecessor's next preimage, and every version's document identifier is
\* the current version of v0
C1_VersionChain ==
    /\ n >= 1 => /\ v0.DocumentIdentifier = v0.CurrentVersion
                 /\ p.CoreDocument.DocumentIdentifier = v0.CurrentVersion
    /\ n >= 2 => /\ p.CoreDocument.PreviousVersion = old.CurrentVersion
                 /\ p.CoreDocument.CurrentVersion = old.NextVersion
                 /\ p.CoreDocument.CurrentPreimage = old.NextPreimage
                 /\ old.DocumentIdentifier = v0.CurrentVersion

\* a third version, made by PrepareNewVersion from a second one
C1_Witness ==
    /\ n >= 3
    /\ last.op = "PrepareNewVersion" /\ last.err = ""
    /\ old.PreviousVersion = v0.CurrentVersion
    /\ p.CoreDocument.PreviousVersion = old.CurrentVersion
    /\ p.CoreDocument.CurrentVersion # old.CurrentVersion

\* C2: in every version, the first one and the later ones, the current
\* preimage hashes to the current version and the next preimage hashes to the
\* next version
C2_PreimagesHashToVersions ==
    /\ n >= 1 => /\ Sha256(v0.CurrentPreimage) = v0.CurrentVersion
                 /\ Sha256(v0.NextPreimage) = v0.NextVersion
                 /\ Sha256(p.CoreDocument.CurrentPreimage) = p.CoreDocument.CurrentVersion
                 /\ Sha256(p.CoreDocument.NextPreimage) = p.CoreDocument.NextVersion
    /\ n >= 2 => /\ Sha256(old.CurrentPreimage) = old.CurrentVersion
                 /\ Sha256(old.NextPreimage) = old.NextVersion

\* a later version, whose current preimage was the next preimage of its
\* predecessor
C2_Witness ==
    /\ n >= 2
    /\ last.op = "AddAccessToken" /\ last.err = ""
    /\ p.CoreDocument.CurrentPreimage = old.NextPreimage
    /\ p.CoreDocument.CurrentPreimage # v0.CurrentPreimage
    /\ Sha256(p.CoreDocument.CurrentPreimage) = p.CoreDocument.CurrentVersion

\* C3: the previous root of a version derived by PrepareNewVersion is the
\* document root of its predecessor, which is the root over the predecessor's
\* final signing root and signatures; v0 has no previous root
C3_PreviousRootIsPredecessorRoot ==
    /\ n >= 1 => v0.PreviousRoot = Nil
    /\ n >= 2 => p.CoreDocument.PreviousRoot =
                    RootHash(DRTreePrefix,
                             <<old.SigningRoot, getSignatureDataTree(old)>>, Nil)

\* C4: PrepareNewVersion on a version whose document root is absent or not
\* 32 bytes long fails with the invalid root error, makes no new version and
\* leaves the version it was called on as it was
C4_InvalidPreviousRoot ==
    [][ (last'.op = "PrepareNewVersion"
            /\ ByteLen(p.CoreDocument.DocumentRoot) # idSize)
        => /\ last'.err = "Document root is invalid"
           /\ p' = p
           /\ n' = n
           /\ old' = old ]_vars

\* PrepareNewVersion has failed on a version whose root is 31 bytes long
C4_Witness ==
    /\ last.op = "PrepareNewVersion"
    /\ last.err = "Document root is invalid"
    /\ p.CoreDocument.DocumentRoot # Nil
    /\ ByteLen(p.CoreDocument.DocumentRoot) = 31

----------------------------------------------------------------------------
(* Roles, rules, NFTs and access tokens across versions *)

\* C5: a version made by PrepareNewVersion holds the roles, read rules and
\* transition rules of its predecessor, in order, before any it adds, holds
\* exactly the predecessor's NFTs and access tokens, and has no signature
C5_CarriesForward ==
    (last.op = "PrepareNewVersion" /\ last.err = "") =>
        LET cd == p.CoreDocument
        IN  /\ Len(cd.Roles) >= Len(old.Roles)
            /\ SubSeq(cd.Roles, 1, Len(old.Roles)) = old.Roles
            /\ Len(cd.ReadRules) >= Len(old.ReadRules)
            /\ SubSeq(cd.ReadRules, 1, Len(old.ReadRules)) = old.ReadRules
            /\ Len(cd.TransitionRules) >= Len(old.TransitionRules)
            /\ SubSeq(cd.TransitionRules, 1, Len(old.TransitionRules))
                   = old.TransitionRules
            /\ cd.Nfts = old.Nfts
            /\ cd.AccessTokens = old.AccessTokens
            /\ cd.Signatures = <<>>

\* PrepareNewVersion has made a version from a signed predecessor that holds
\* roles, rules and an NFT
C5_Witness ==
    /\ last.op = "PrepareNewVersion" /\ last.err = ""
    /\ old.Signatures # <<>>
    /\ old.Roles # <<>> /\ old.ReadRules # <<>> /\ old.TransitionRules # <<>>
    /\ old.Nfts # <<>>
    /\ p.CoreDocument.Nfts = old.Nfts
    /\ Len(p.CoreDocument.Roles) > Len(old.Roles)

\* C6: PrepareNewVersion(collaborators) gives read access to exactly the
\* supplied identities that could not read the predecessor (an identity is
\* the same whatever the letter case of its string): they are the
\* collaborators of one new role, with a fresh key, named by one new READ_SIGN
\* rule; who else can read is as in the predecessor; when no supplied identity
\* is new, no role and no read rule is added
C6_NewCollaboratorsOnly ==
    (last.op = "PrepareNewVersion" /\ last.err = "") =>
        LET cd == p.CoreDocument
            cs == last.args.collaborators
            all == DIDs \cup { DIDBytes(0) }
            supplied == { NewDIDFromString(cs[i]) : i \in 1..Len(cs) }
            was == { d \in all : AccountCanRead(old, d) }
            new == supplied \ was
            role == cd.Roles[Len(cd.Roles)]
        IN  /\ new = {} => cd.Roles = old.Roles /\ cd.ReadRules = old.ReadRules
            /\ new # {} =>
                /\ Len(cd.Roles) = Len(old.Roles) + 1
                /\ Range(role.Collaborators) = new
                /\ \A i \in 1..Len(old.Roles) : old.Roles[i].RoleKey # role.RoleKey
                /\ Len(cd.ReadRules) = Len(old.ReadRules) + 1
                /\ cd.ReadRules[Len(cd.ReadRules)]
                       = [Roles |-> <<role.RoleKey>>, Action |-> READ_SIGN]
            /\ \A d \in all : AccountCanRead(cd, d) <=> (d \in was \/ d \in new)

\* PrepareNewVersion was given, in upper case, an identity that could read
\* the predecessor, and a new one; an identity never supplied cannot read
C6_Witness ==
    /\ last.op = "PrepareNewVersion" /\ last.err = ""
    /\ last.args.collaborators = << AddrString(1, "upper"), AddrString(2, "lower") >>
    /\ AccountCanRead(old, DIDBytes(1))
    /\ ~AccountCanRead(old, DIDBytes(2))
    /\ AccountCanRead(p.CoreDocument, DIDBytes(2))
    /\ ~AccountCanRead(p.CoreDocument, DIDBytes(0))
    /\ Len(p.CoreDocument.Roles) = Len(old.Roles) + 1

\* C7: a first version created with collaborators has exactly one role, which
\* holds them all, exactly one read rule, READ_SIGN for that role, and no
\* previous version; initReadRules with no collaborators adds no role and no
\* read rule, and initReadRules on a document that has roles and read rules
\* adds none
C7_InitialReadRules ==
    [][ /\ (/\ last'.op = "NewCoreDocumentWithCollaborators"
            /\ last'.err = ""
            /\ last'.args.collaborators # <<>>)
           => LET cd == p'.CoreDocument
                  cs == last'.args.collaborators
              IN  /\ Len(cd.Roles) = 1
                  /\ cd.Roles[1].Collaborators
                         = [i \in 1..Len(cs) |-> NewDIDFromString(cs[i])]
                  /\ cd.ReadRules
                         = << [Roles |-> <<cd.Roles[1].RoleKey>>, Action |-> READ_SIGN] >>
                  /\ cd.PreviousVersion = Nil
        /\ (/\ last'.op = "initReadRules"
            /\ \/ last'.args.collaborators = <<>>
               \/ /\ p.CoreDocument.Roles # <<>>
                  /\ p.CoreDocument.ReadRules # <<>>)
           => /\ p'.CoreDocument.Roles = p.CoreDocument.Roles
              /\ p'.CoreDocument.ReadRules = p.CoreDocument.ReadRules ]_vars

\* initReadRules was called a second time with the collaborators it had set,
\* on a document with one role and one read rule
C7_Witness ==
    /\ last.op = "initReadRules"
    /\ last.args.collaborators # <<>>
    /\ Len(p.CoreDocument.Roles) = 1
    /\ p.CoreDocument.Roles[1].Collaborators = last.args.collaborators
    /\ Len(p.CoreDocument.ReadRules) = 1
    /\ p.CoreDocument.TransitionRules = <<>>

\* C8: every role key named by a read rule or by a transition rule of a
\* version is the key of one of the version's roles
C8_RulesNameExistingRoles ==
    n >= 1 =>
        LET cd == p.CoreDocument
            keys == { cd.Roles[i].RoleKey : i \in 1..Len(cd.Roles) }
        IN  /\ \A i \in 1..Len(cd.ReadRules) :
                   Range(cd.ReadRules[i].Roles) \subseteq keys
            /\ \A i \in 1..Len(cd.TransitionRules) :
                   Range(cd.TransitionRules[i].Roles) \subseteq keys

\* a third version with read rules for collaborators and for an NFT, and a
\* transition rule
C8_Witness ==
    /\ n >= 3
    /\ Len(p.CoreDocument.ReadRules) >= 2
    /\ p.CoreDocument.TransitionRules # <<>>
    /\ \E i \in 1..Len(p.CoreDocument.ReadRules) :
           p.CoreDocument.ReadRules[i].Action = READ
    /\ \E i \in 1..Len(p.CoreDocument.ReadRules) :
           p.CoreDocument.ReadRules[i].Action = READ_SIGN

\* C9: a successful AddNFT with grantReadAccess makes a version with the
\* predecessor's roles and read rules and exactly one more of each: a role
\* holding the NFT of that registry and token, and a READ rule naming it;
\* without grantReadAccess the roles and read rules are the predecessor's
C9_AddNFTReadAccess ==
    (last.op = "AddNFT" /\ last.err = "") =>
        LET cd == p.CoreDocument
            role == cd.Roles[Len(cd.Roles)]
        IN  IF last.args.grantReadAccess
            THEN /\ Len(cd.Roles) = Len(old.Roles) + 1
                 /\ SubSeq(cd.Roles, 1, Len(old.Roles)) = old.Roles
                 /\ role.Nfts = << <<"nft", last.args.registry, last.args.tokenID>> >>
                 /\ role.Collaborators = <<>>
                 /\ Len(cd.ReadRules) = Len(old.ReadRules) + 1
                 /\ SubSeq(cd.ReadRules, 1, Len(old.ReadRules)) = old.ReadRules
                 /\ cd.ReadRules[Len(cd.ReadRules)]
                        = [Roles |-> <<role.RoleKey>>, Action |-> READ]
            ELSE /\ cd.Roles = old.Roles
                 /\ cd.ReadRules = old.ReadRules

\* AddNFT has granted read access on a version that had a role and a read rule
C9_Witness ==
    /\ last.op = "AddNFT" /\ last.err = ""
    /\ last.args.grantReadAccess
    /\ old.Roles # <<>> /\ old.ReadRules # <<>>
    /\ Len(p.CoreDocument.Roles) = Len(old.Roles) + 1
    /\ p.CoreDocument.ReadRules[Len(p.CoreDocument.ReadRules)].Action = READ

\* C10: the NFTs of a document hold at most one entry for a registry; a
\* successful AddNFT for a registry that has an entry puts the new token id
\* in that entry, for a registry that has none it appends one entry, and it
\* leaves every other entry as it was; no other step changes the NFTs, which
\* are empty in a first version, so a registry never added has no entry
C10_OneNFTPerRegistry ==
    [][ LET a == p.CoreDocument.Nfts
            b == p'.CoreDocument.Nfts
            at == getStoredNFT(a, last'.args.registry)
        IN  /\ \A i, j \in 1..Len(b) :
                   First20(b[i].RegistryId) = First20(b[j].RegistryId) => i = j
            /\ last'.op = "NewCoreDocumentWithCollaborators" => b = <<>>
            /\ (last'.op = "AddNFT" /\ last'.err = "") =>
                   IF at = 0
                   THEN b = Append(a, [RegistryId |-> PadRegistry(last'.args.registry),
                                       TokenId |-> last'.args.tokenID])
                   ELSE b = [a EXCEPT ![at].TokenId = last'.args.tokenID]
            /\ ~(last'.op \in {"AddNFT", "NewCoreDocumentWithCollaborators"}
                    /\ last'.err = "")
                   => b = a ]_vars

\* AddNFT has put a new token id in the entry that a registry had
C10_Witness ==
    /\ last.op = "AddNFT" /\ last.err = ""
    /\ Len(old.Nfts) = 1
    /\ Len(p.CoreDocument.Nfts) = 1
    /\ p.CoreDocument.Nfts # old.Nfts
    /\ getStoredNFT(old.Nfts, last.args.registry) # 0

----------------------------------------------------------------------------
(* Read access *)

C13_RequesterVerification ==
    (last.op = "validateDocumentAccess"
        /\ last.args.accessType = REQUESTER_VERIFICATION) =>
        LET cd == p.CoreDocument
            collaborator == \E i \in 1..Len(cd.ReadRules), j \in 1..Len(cd.Roles) :
                        /\ cd.Roles[j].RoleKey \in Range(cd.ReadRules[i].Roles)
                        /\ last.args.peer \in Range(cd.Roles[j].Collaborators)
        IN  last.err = "" <=> collaborator

\* requester verification has refused an account that is no collaborator, on
\* a document that has collaborators and binds an NFT
C13_Witness ==
    /\ last.op = "validateDocumentAccess"
    /\ last.args.accessType = REQUESTER_VERIFICATION
    /\ last.err = "requester does not have access"
    /\ last.args.peer = DIDBytes(0)
    /\ AccountCanRead(p.CoreDocument, DIDBytes(1))
    /\ \E j \in 1..Len(p.CoreDocument.Roles) : p.CoreDocument.Roles[j].Nfts # <<>>

----------------------------------------------------------------------------
(* Updates received from peers *)

\* C14: when a peer presents a version whose previous version is in the
\* store of the receiving node, on a signature request or with the anchored
\* document, and some changed leaf of the envelope or of the body is covered
\* by no transition rule of the previous version that applies to the peer,
\* the call fails as an invalid document with an invalid state transition,
\* returns no signature and leaves the store as it was.
C14_TransitionSoundness ==
    [][ LET op == last'.op
            call == IF op = "ReceiveAnchoredDocument" THEN last'.args.call ELSE last'.args
            prev == p.CoreDocument.PreviousVersion
        IN  ( /\ op \in { "RequestDocumentSignature", "ReceiveAnchoredDocument" }
              /\ call.self # Nil
              /\ call.present
              /\ prev \in DOMAIN repo
              /\ LET vk == repo[prev]
                     rules == TransitionRulesFor(vk.CoreDocument, call.collaborator)
                     changed ==
                         GetChangedFields(
                             cdTreeLeaves(vk.CoreDocument, PurchaseOrderDataTypeUrl),
                             cdTreeLeaves(p.CoreDocument, PurchaseOrderDataTypeUrl))
                           \cup GetChangedFields(dataTreeLeaves(vk), dataTreeLeaves(p))
                 IN  \E cf \in changed :
                         \A i \in 1..Len(rules) : ~isValidTransition(rules[i], cf) )
            => ( /\ last'.err = ErrDocumentInvalid
                 /\ "invalid document state transition" \in last'.why
                 /\ last'.sig = Nil
                 /\ repo' = repo
                 /\ prev \in DOMAIN repo'
                 /\ p' = p )
      ]_vars

\* a signature request for a version with another body than the stored
\* previous version, from a peer without rules, was rejected
C14_Witness ==
    /\ last.op = "RequestDocumentSignature"
    /\ last.err = ErrDocumentInvalid
    /\ "invalid document state transition" \in last.why
    /\ p.CoreDocument.PreviousVersion \in DOMAIN repo
    /\ repo[p.CoreDocument.PreviousVersion].PoNumber # p.PoNumber
    /\ TransitionRulesFor(repo[p.CoreDocument.PreviousVersion].CoreDocument,
                          last.args.collaborator) = <<>>

\* C15: whether the peer may make the changes of the version it presents is
\* decided by the transition rules and roles of the stored previous version:
\* the version is rejected for its state transition exactly when those rules
\* leave a changed leaf uncovered, whatever roles and rules the presented
\* version itself holds for the peer.
C15_RulesOfPreviousVersion ==
    [][ LET op == last'.op
            call == IF op = "ReceiveAnchoredDocument" THEN last'.args.call ELSE last'.args
            prev == p.CoreDocument.PreviousVersion
        IN  ( /\ op \in { "RequestDocumentSignature", "ReceiveAnchoredDocument" }
              /\ call.self # Nil
              /\ call.present
              /\ prev \in DOMAIN repo )
            => LET vk == repo[prev]
                   rules == TransitionRulesFor(vk.CoreDocument, call.collaborator)
                   changed ==
                       GetChangedFields(
                           cdTreeLeaves(vk.CoreDocument, PurchaseOrderDataTypeUrl),
                           cdTreeLeaves(p.CoreDocument, PurchaseOrderDataTypeUrl))
                         \cup GetChangedFields(dataTreeLeaves(vk), dataTreeLeaves(p))
               IN  ("invalid document state transition" \in last'.why)
                     <=> (ValidateTransitions(rules, changed) # "")
      ]_vars

\* a peer that the presented version makes a collaborator, and that the
\* stored previous version gives no rule, was rejected
C15_Witness ==
    /\ last.op \in { "RequestDocumentSignature", "ReceiveAnchoredDocument" }
    /\ "invalid document state transition" \in last.why
    /\ p.CoreDocument.PreviousVersion \in DOMAIN repo
    /\ LET call == IF last.op = "ReceiveAnchoredDocument" THEN last.args.call ELSE last.args
       IN  /\ TransitionRulesFor(repo[p.CoreDocument.PreviousVersion].CoreDocument,
                                 call.collaborator) = <<>>
           /\ TransitionRulesFor(p.CoreDocument, call.collaborator) # <<>>

----------------------------------------------------------------------------
(* Signatures of one version *)

\* C16: appending a signature that the version holds already, with the same
\* signer and the same signature bytes, leaves the list of signatures, the
\* signatures root and the document root calculated from them as they were.
C16_AppendSignaturesIdempotent ==
    [][ (last'.op = "AppendSignatures"
            /\ last'.args.sig \in Range(p.CoreDocument.Signatures))
        => /\ p'.CoreDocument.Signatures = p.CoreDocument.Signatures
           /\ getSignatureDataTree(setSignatureDataSalts(p'.CoreDocument, n))
                = getSignatureDataTree(setSignatureDataSalts(p.CoreDocument, n))
           /\ DocumentRootTree(p'.CoreDocument, n).root
                = DocumentRootTree(p.CoreDocument, n).root
      ]_vars

\* C17: the last two signatures of a version, appended in the other order,
\* give the same signatures root and the same document root.
C17_SignatureAppendsCommute ==
    LET cd == p.CoreDocument
        s == cd.Signatures
        len == Len(s)
    IN  len >= 2 =>
            LET base == [cd EXCEPT !.Signatures = SubSeq(s, 1, len - 2)]
                other == AppendSignatures(AppendSignatures(base, << s[len] >>),
                                          << s[len - 1] >>)
            IN  /\ getSignatureDataTree(setSignatureDataSalts(other, n))
                     = getSignatureDataTree(setSignatureDataSalts(cd, n))
                /\ DocumentRootTree(other, n).root = DocumentRootTree(cd, n).root

\* C18: a mutation of the version invalidates its cached document root:
\* after AppendSignatures has added a signature the version holds no
\* document root or the root of its present signing root and signatures, and
\* the previous root that PrepareNewVersion copies into the new version is
\* the root of the signing root and signatures the version has at that time.
C18_DocumentRootCacheInvalidated ==
    [][ /\ (last'.op = "AppendSignatures"
              /\ p'.CoreDocument.Signatures # p.CoreDocument.Signatures)
           => p'.CoreDocument.DocumentRoot
                \in { Nil, DocumentRootTree(p'.CoreDocument, n).root }
        /\ (last'.op = "PrepareNewVersion" /\ last'.err = "")
           => p'.CoreDocument.PreviousRoot = DocumentRootTree(p.CoreDocument, n).root
      ]_vars

----------------------------------------------------------------------------
(* Proofs *)

\* C19: when the data root, the signing root and the document root of a
\* version are the roots of its present state, then for every field of its
\* data tree, cd_tree, signatures_tree and dr_tree CreateProofs returns one
\* proof of that field, and the hash of the leaf folded with the sorted
\* hashes of the proof (those of the tree, then the appended ones) under
\* sorted pair hashing is the document root.
C19_ProofsFoldToDocumentRoot ==
    LET cd == p.CoreDocument
        calculated ==
            /\ cd.DataRoot = getDocumentDataTree(p)
            /\ cd.SigningRoot = signingRootTree(cd, PurchaseOrderDataTypeUrl).root
            /\ ByteLen(cd.SigningRoot) = idSize
            /\ cd.DocumentRoot = DocumentRootTree(cd, n).root
    IN  calculated =>
            \A f \in FieldsOf(p) :
                LET res == PurchaseOrderCreateProofs(p, << f >>, n)
                IN  /\ res.err = ""
                    /\ Len(res.prfs) = 1
                    /\ res.prfs[1].Property = f
                    /\ CalculateHashForProofField(res.prfs[1].Hash,
                                                  res.prfs[1].SortedHashes)
                         = cd.DocumentRoot

\* proofs of a body field and of a signature field were returned for a
\* version with the signatures of two signers and its present roots, and
\* both fold to the document root
C19_Witness ==
    /\ last.op = "CreateProofs"
    /\ last.err = ""
    /\ Len(p.CoreDocument.Signatures) >= 2
    /\ p.CoreDocument.DocumentRoot = DocumentRootTree(p.CoreDocument, n).root
    /\ p.CoreDocument.SigningRoot
         = signingRootTree(p.CoreDocument, PurchaseOrderDataTypeUrl).root
    /\ Len(last.prfs) = 2
    /\ last.prfs[1].Property[1] = "po"
    /\ last.prfs[2].Property[1] = SignaturesTreePrefix
    /\ \A i \in 1..2 :
          CalculateHashForProofField(last.prfs[i].Hash, last.prfs[i].SortedHashes)
            = p.CoreDocument.DocumentRoot

\* C20: a CreateProofs call whose list holds a field of an unknown tree or
\* a field its tree does not hold returns an error and no proof, whatever
\* good fields come before it in the list.
C20_CreateProofsAllOrNothing ==
    [][ (last'.op = "CreateProofs"
            /\ \E i \in 1..Len(last'.args.fields) :
                   last'.args.fields[i] \notin FieldsOf(p))
        => /\ last'.err # ""
           /\ last'.prfs = Nil
      ]_vars

\* a call for a good field followed by a field of no tree, on a version with
\* a signing root, failed for the unknown prefix and returned no proof
C20_Witness ==
    /\ last.op = "CreateProofs"
    /\ last.err = "failed to find prefix tree in supported list"
    /\ Len(last.args.fields) = 2
    /\ last.args.fields[1] \in FieldsOf(p)
    /\ last.prfs = Nil

----------------------------------------------------------------------------
(* Salts *)

C22_SaltsMatchLeaves ==
    LET cd == p.CoreDocument
    IN  /\ (last.op = "CalculateDocumentRoot" /\ last.err = "")
              => saltsCount(cd.SignatureDataSalts)
                   = Len(signatureDataLeaves(cd.Signatures))
        /\ (last.op = "CalculateSigningRoot" /\ last.err = "")
              => saltsCount(cd.CoredocumentSalts) = cdLeafCount(cd)

----------------------------------------------------------------------------
(* Peer messages *)

\* C23: when a peer sends an anchored document to an account of the node and
\* the anchor registry holds, for its current version, a root other than
\* the document root computed from the document, the handler answers with an
\* ERROR envelope that carries the validation error, not with an Accepted
\* reply, and the receiver's store is left as it was.
C23_MismatchedRootRejected ==
    [][ LET a == last'.args
            cd == DeriveFromCoreDocument(a.body[1].Document[1]).p.CoreDocument
            dr == CalculateDocumentRoot(cd, n)
        IN  ( /\ last'.op = "HandleSendAnchoredDocument"
              /\ a.call.self # Nil
              /\ a.body # Nil
              /\ a.body[1].Document # Nil
              /\ DeriveFromCoreDocument(a.body[1].Document[1]).err = ""
              /\ dr.err = ""
              /\ a.anchor.err = ""
              /\ a.anchor.root # dr.doc.DocumentRoot )
            => /\ last'.envelope
                    = << MessageTypeError, centerrorsNew("Unknown", ErrDocumentInvalid) >>
               /\ "mismatched document roots" \in last'.why
               /\ repo' = repo ]_vars

\* a stored version with valid signatures was sent by a collaborator who may
\* send it, and the only thing wrong with it was the root in the registry
C23_Witness ==
    /\ last.op = "HandleSendAnchoredDocument"
    /\ last.args.anchor.err = ""
    /\ last.why = { "mismatched document roots" }
    /\ p.CoreDocument.CurrentVersion \in DOMAIN repo
    /\ p.CoreDocument.Signatures # <<>>

----------------------------------------------------------------------------
(* The store *)

\* C24: GetCurrentVersion(documentID) fails with ErrDocumentVersionNotFound
\* exactly when documentID is not a key of the store; when it returns a
\* model, that is the stored version reached from documentID over next
\* version links through stored versions whose own next version is not a
\* key of the store; and it returns one whenever the links lead to such a
\* version.
C24_CurrentVersionIsLastStored ==
    (last.op = "GetCurrentVersion" /\ ~last.walking) =>
        LET documentID == last.args.documentID
            next(v) == repo[v].CoreDocument.NextVersion
            chain[i \in 0..MaxStored] ==
                IF i = 0 THEN documentID
                ELSE IF chain[i - 1] \in DOMAIN repo THEN next(chain[i - 1])
                ELSE chain[i - 1]
            lastStored(k) ==
                /\ \A j \in 0..k : chain[j] \in DOMAIN repo
                /\ \A i, j \in 0..k : i # j => chain[i] # chain[j]
                /\ next(chain[k]) \notin DOMAIN repo
        IN  /\ (last.err = ErrDocumentVersionNotFound) = (documentID \notin DOMAIN repo)
            /\ \A k \in 0..MaxStored :
                   lastStored(k) => last.err = "" /\ last.model = repo[chain[k]]
            /\ last.err = "" => \E k \in 0..MaxStored : lastStored(k)
            /\ GetCurrentVersion(repo, documentID).err = last.err
            /\ GetCurrentVersion(repo, documentID).model = last.model

\* a walk over three stored versions returned the last of them
C24_Witness ==
    /\ last.op = "GetCurrentVersion"
    /\ ~last.walking
    /\ last.err = ""
    /\ Cardinality(last.seen) > 2
    /\ last.model.CoreDocument.CurrentVersion # last.args.documentID
    /\ last.model.CoreDocument.NextVersion = StoredVersion(0)

----------------------------------------------------------------------------
(* Concurrent derivations *)

\* C26: when a version v has been made from a base version and has its
\* document root, a second attempt to prepare a next version from the same
\* base fails; it never yields another version with the current version of
\* v.
C26_SecondDerivationFails ==
    [][ ( /\ last'.op = "PrepareNewVersionFromBase"
          /\ ByteLen(p.CoreDocument.DocumentRoot) = idSize )
        => /\ last'.err # ""
           /\ last'.doc.CurrentVersion # p.CoreDocument.CurrentVersion ]_vars

----------------------------------------------------------------------------
(* Anchored versions *)

----------------------------------------------------------------------------
(* Errors of the peer handlers *)

\* C28: a failure while a GetDocument message is handled (a body that does
\* not unmarshal, an unknown document, a requester who fails the access
\* validation, a failure while the reply is prepared) is never answered
\* with a GetDocRep reply, and never with neither an envelope nor an error.
C28_FailureIsErrorEnvelope ==
    [][ LET a == last'.args
            cur == GetCurrentVersion(repo, a.body[1].DocumentIdentifier)
            failed ==
                \/ a.body = Nil
                \/ cur.err # ""
                \/ validateDocumentAccess(cur.model.CoreDocument, a.body[1].AccessType,
                                          [err |-> "", addr |-> a.requester],
                                          a.body[1].NftRegistryAddress,
                                          a.body[1].NftTokenId, a.requester) # ""
                \/ a.nc # ""
        IN  (last'.op = "HandleGetDocument" /\ failed)
            => /\ last'.envelope # Nil => last'.envelope[1] = MessageTypeError
               /\ last'.envelope = Nil => last'.err # "" ]_vars

----------------------------------------------------------------------------
(* Identities *)

\* C29: a CreateIdentity call that returns a DID returns the address of the
\* IdentityCreated event of its own transaction, whatever address it had
\* calculated from the nonce of the factory; it returns a DID only when its
\* transaction was done and the factory reports the address as created;
\* two calls never return the same DID.
C29_CreatedIdentityIsOwnEvent ==
    \A c \in 1..NumCreators :
        LET call == eth.calls[c]
        IN  (call.pc = "returned" /\ call.did # Nil)
            => /\ call.err = ""
               /\ call.done
               /\ [tx |-> call.txID, addr |-> call.did] \in eth.events
               /\ call.did \in eth.created
               /\ \A d \in 1..NumCreators :
                      (d # c /\ eth.calls[d].pc = "returned")
                      => eth.calls[d].did # call.did

\* two calls calculated the same address, both transactions were mined, and
\* a call returned a DID other than the address it had calculated
C29_Witness ==
    \E c, d \in 1..NumCreators :
        /\ c # d
        /\ eth.calls[c].pc = "returned"
        /\ eth.calls[d].pc = "returned"
        /\ eth.calls[c].calc = eth.calls[d].calc
        /\ eth.calls[c].did # Nil
        /\ eth.calls[d].did # Nil
        /\ eth.calls[c].did # eth.calls[c].calc

----------------------------------------------------------------------------
(* The author's signature *)

\* C30: a successful PrepareForSignatureRequests appends exactly one
\* signature, made by the account of the caller over the signing root of
\* the document as it is after the data root was calculated and the author
\* and the timestamp were recorded; a failed one appends no signature.
C30_AuthorSignsAfterUpdateLog ==
    [][ last'.op = "PrepareForSignatureRequests"
        => LET cd == p.CoreDocument
               cd1 == p'.CoreDocument
               self == last'.args.self
               now == Now(n, Len(cd.Signatures))
           IN  IF last'.err = ""
               THEN /\ Len(cd1.Signatures) = Len(cd.Signatures) + 1
                    /\ SubSeq(cd1.Signatures, 1, Len(cd.Signatures)) = cd.Signatures
                    /\ cd1.DataRoot = PurchaseOrderCalculateDataRoot(p).CoreDocument.DataRoot
                    /\ cd1.Author = self
                    /\ cd1.Timestamp = now
                    /\ cd1.SigningRoot
                         = CalculateSigningRoot(cd1, PurchaseOrderDataTypeUrl).doc.SigningRoot
                    /\ cd1.Signatures[Len(cd1.Signatures)] = SignMsg(self, cd1.SigningRoot)
               ELSE cd1.Signatures = cd.Signatures ]_vars

\* the author signed a derived version, and the signing root that was
\* signed is not the one the document has without its author and timestamp
C30_Witness ==
    LET cd == p.CoreDocument
    IN  /\ last.op = "PrepareForSignatureRequests"
        /\ last.err = ""
        /\ Len(cd.Signatures) = 1
        /\ cd.Author = last.args.self
        /\ n > 1
        /\ cd.Signatures[1] = SignMsg(last.args.self, cd.SigningRoot)
        /\ cd.SigningRoot
             # CalculateSigningRoot([cd EXCEPT !.Author = Nil, !.Timestamp = Nil],
                                    PurchaseOrderDataTypeUrl).doc.SigningRoot

----------------------------------------------------------------------------
(* The anchor processor *)

\* C31: RequestSignatures asks the peers only when the signatures the
\* document holds are valid; when they are not, no peer is asked and no
\* signature is appended; when the collection returns no error of its own,
\* the signatures that came back are appended whatever number of peers
\* failed; when it returns an error, the call fails and appends nothing.
C31_SignaturesAfterValidation ==
    [][ last'.op = "RequestSignatures"
        => LET cd == p.CoreDocument
               cd1 == p'.CoreDocument
               valid == signaturesValidator(cd) = {}
               c == last'.args
           IN  /\ last'.contacted = valid
               /\ ~valid => (last'.err # "" /\ cd1.Signatures = cd.Signatures)
               /\ (valid /\ c.err = "")
                    => (last'.err = "" /\ cd1.Signatures = cd.Signatures \o c.signs)
               /\ (valid /\ c.err # "")
                    => (last'.err # "" /\ cd1.Signatures = cd.Signatures) ]_vars

\* a peer failed, another returned its signature, and the signature was
\* appended after the author's
C31_Witness ==
    /\ last.op = "RequestSignatures"
    /\ last.err = ""
    /\ last.args.errs > 0
    /\ last.args.signs # <<>>
    /\ Len(p.CoreDocument.Signatures) = 2
    /\ p.CoreDocument.Signatures[2] = last.args.signs[1]

\* C32: AnchorDocument submits a commit only for a document whose signatures
\* are all valid over the signing root and whose document root it has just
\* computed; a call that fails before the submission leaves the registry and
\* the pending requests alone; and a commit that completes with false makes
\* the call return an error.
C32_CommitAfterValidation ==
    [][ /\ (~Waiting /\ Waiting' /\ anchors'.wait[1].req.op = "CommitAnchor")
            => /\ PreAnchorValidator(p.CoreDocument) = {}
               /\ CalculateDocumentRoot(p.CoreDocument, n).err = ""
               /\ ByteLen(p'.CoreDocument.DocumentRoot) = idSize
               /\ anchors'.wait[1].req.rootHash = p'.CoreDocument.DocumentRoot
        /\ (~Waiting /\ last'.op = "AnchorDocument"
              /\ (PreAnchorValidator(p.CoreDocument) # {}
                    \/ CalculateDocumentRoot(p.CoreDocument, n).err # ""))
            => /\ anchors' = anchors
               /\ last'.err # ""
        /\ (Waiting /\ anchors.wait[1].req.op = "CommitAnchor"
              /\ anchors'.commits = anchors.commits)
            => last'.err = "failed to commit anchor" ]_vars

\* a commit was submitted and completed
C32_Witness ==
    /\ last.op = "AnchorDocument"
    /\ last.err = ""
    /\ ~Waiting
    /\ \E c \in anchors.commits : c.root = p.CoreDocument.DocumentRoot

\* C33: the commit that AnchorDocument submits for a version agrees with the
\* pre-commit of that version: the preimage hashes to the current version,
\* which is the anchor id of the pre-commit; the root is the root of the tree
\* over signing root and signatures root; and the one proof hash is the
\* signatures root, which hashed as a sorted pair with the pre-committed
\* signing root gives the committed root.
C33_CommitAgreesWithPreCommit ==
    [][ (~Waiting /\ Waiting' /\ anchors'.wait[1].req.op = "CommitAnchor")
          => /\ Sha256(anchors'.wait[1].req.anchorIDPreimage)
                  = p'.CoreDocument.CurrentVersion
             /\ anchors'.wait[1].req.rootHash
                  = RootHash(DRTreePrefix,
                             << p'.CoreDocument.SigningRoot,
                                GetSignaturesRootHash(p'.CoreDocument) >>, Nil)
             /\ anchors'.wait[1].req.proofs
                  = << GetSignaturesRootHash(p'.CoreDocument) >>
             /\ \A q \in anchors.pre :
                    q.anchorID = p'.CoreDocument.CurrentVersion
                      => HashPair(q.signingRoot, anchors'.wait[1].req.proofs[1])
                           = anchors'.wait[1].req.rootHash ]_vars

\* a version of a chain was pre-committed and then committed
C33_Witness ==
    /\ n > 1
    /\ \E c \in anchors.commits, q \in anchors.pre :
           /\ q.anchorID = c.anchorID
           /\ c.anchorID = p.CoreDocument.CurrentVersion
           /\ HashPair(q.signingRoot, c.proofs[1]) = c.root

\* C34: a PreAnchorDocument or AnchorDocument call that has submitted its
\* request returns in the end, whatever the anchor repository answered.
C34_AnchorCallsReturn == Waiting ~> ~Waiting

\* a call whose submission was answered with a channel returns in the end
C34_ReturnsWithChannel ==
    (Waiting /\ anchors.wait[1].chan = "open") ~> ~Waiting

\* the collaborators that the roles of the rules with the given action hold
CollaboratorsWith(cd, action) ==
    UNION { Range(role.Collaborators) :
              role \in { r \in Range(cd.Roles) :
                           \E i \in 1..Len(cd.ReadRules) :
                              /\ cd.ReadRules[i].Action = action
                              /\ r.RoleKey \in Range(cd.ReadRules[i].Roles) } }

\* C35: a SendDocument call that gets past its validation calls Send once
\* for every READ_SIGN collaborator but the sender, whatever the earlier
\* deliveries answered, and for nobody else; it returns an error exactly when
\* one of these deliveries was answered with an error or was not accepted.
C35_DeliveryToSigners ==
    (/\ last.op = "SendDocument"
     /\ last.err # "post anchor validations failed"
     /\ last.args.self # Nil)
      => /\ Range(last.sent)
              = CollaboratorsWith(p.CoreDocument, READ_SIGN) \ { last.args.self }
         /\ last.args.self \notin Range(last.sent)
         /\ \A c \in CollaboratorsWith(p.CoreDocument, READ)
                        \ CollaboratorsWith(p.CoreDocument, READ_SIGN) :
                c \notin Range(last.sent)
         /\ Len(last.errs)
              = Cardinality({ i \in 1..Len(last.sent) :
                               \/ last.args.replies[i].err # ""
                               \/ ~last.args.replies[i].accepted })
         /\ (last.err # "") <=> (Len(last.errs) > 0)

\* a document with a reader was sent to two signers; the first delivery
\* failed, the second was accepted, and the call returned an error
C35_Witness ==
    /\ last.op = "SendDocument"
    /\ Len(last.sent) >= 2
    /\ last.args.replies[1].err # ""
    /\ last.args.replies[2].accepted
    /\ last.err # ""
    /\ CollaboratorsWith(p.CoreDocument, READ)
         \ CollaboratorsWith(p.CoreDocument, READ_SIGN) # {}
    /\ last.args.self \in CollaboratorsWith(p.CoreDocument, READ_SIGN)

\* C36: whenever SendDocument has called Send for anyone, the anchor registry
\* holds a commit for the current version of the document with the
\* document root of the document.
C36_SentOnlyWhenAnchored ==
    (last.op = "SendDocument" /\ last.sent # <<>>)
      => \E c \in anchors.commits :
            /\ c.anchorID = p.CoreDocument.CurrentVersion
            /\ c.root = CalculateDocumentRoot(p.CoreDocument, n).doc.DocumentRoot

\* an anchored document was delivered to all its signers
C36_Witness ==
    /\ last.op = "SendDocument"
    /\ last.sent # <<>>
    /\ last.err = ""
    /\ anchors.commits # {}

(* The receiving side of the delivery *)

\* the document of the call is valid and anchored with its document root
ReceivedValid(r, po, call, anchor, k) ==
    /\ call.self # Nil
    /\ call.present
    /\ CalculateDocumentRoot(po.CoreDocument, k).err = ""
    /\ anchor.err = ""
    /\ anchor.root = CalculateDocumentRoot(po.CoreDocument, k).doc.DocumentRoot
    /\ signaturesValidator(po.CoreDocument) = {}
    /\ transitionValidator(r, po, call.collaborator) = {}

\* C37: ReceiveAnchoredDocument of a valid and anchored version fails with
\* a persistence error and leaves the store alone when the store does not
\* hold the version, and succeeds, with the version in the store, when it
\* does.
C37_ReceivedOnlyWhenStored ==
    [][ (/\ last'.op = "ReceiveAnchoredDocument"
         /\ ReceivedValid(repo, p, last'.args.call, last'.args.anchor, n))
          => IF p.CoreDocument.CurrentVersion \in DOMAIN repo
             THEN /\ last'.err = ""
                  /\ DOMAIN repo' = DOMAIN repo
                  /\ repo'[p.CoreDocument.CurrentVersion].CoreDocument.DocumentRoot
                       = last'.args.anchor.root
             ELSE /\ last'.err = ErrDocumentPersistence
                  /\ repo' = repo ]_vars

\* a valid and anchored version that the store does not hold was refused,
\* while the store holds other versions
C37_Witness ==
    /\ last.op = "ReceiveAnchoredDocument"
    /\ last.err = ErrDocumentPersistence
    /\ p.CoreDocument.CurrentVersion \notin DOMAIN repo
    /\ DOMAIN repo # {}

\* the reply to a GetDocument message carries a document
HasContent(envelope) ==
    /\ envelope # Nil
    /\ envelope[1] = MessageTypeGetDocRep
    /\ envelope[2] # Nil

\* the requester passes the access check that the request names, on the
\* current version cd of the requested document: a collaborator of a read
\* rule, or the owner of an NFT that a read rule binds
PassesAccessCheck(cd, docReq, requester, owner) ==
    \/ /\ docReq.AccessType \in { REQUESTER_VERIFICATION, NFT_OWNER_VERIFICATION }
       /\ requester \in CollaboratorsWith(cd, READ) \cup CollaboratorsWith(cd, READ_SIGN)
    \/ /\ docReq.AccessType = NFT_OWNER_VERIFICATION
       /\ nftInReadRules(cd, docReq.NftRegistryAddress, docReq.NftTokenId)
       /\ owner.err = ""
       /\ owner.addr = requester

C39_AppendKeepsSigningRoot ==
    [][ (last'.op = "AppendSignatures")
          => /\ p'.CoreDocument.DataRoot = p.CoreDocument.DataRoot
             /\ p'.CoreDocument.SigningRoot = p.CoreDocument.SigningRoot
             /\ CalculateSigningRoot(p'.CoreDocument, PurchaseOrderDataTypeUrl).err
                  = CalculateSigningRoot(p.CoreDocument, PurchaseOrderDataTypeUrl).err
             /\ CalculateSigningRoot(p'.CoreDocument, PurchaseOrderDataTypeUrl)
                    .doc.SigningRoot
                  = CalculateSigningRoot(p.CoreDocument, PurchaseOrderDataTypeUrl)
                      .doc.SigningRoot
             /\ Len(p'.CoreDocument.Signatures) > Len(p.CoreDocument.Signatures)
             /\ \A i \in 1..Len(p.CoreDocument.Signatures) :
                    /\ p'.CoreDocument.Signatures[i] = p.CoreDocument.Signatures[i]
                    /\ (p.CoreDocument.Signatures[i]
                          = SignMsg(p.CoreDocument.Signatures[i].SignerId,
                                    p.CoreDocument.SigningRoot))
                        => (p'.CoreDocument.Signatures[i]
                             = SignMsg(p'.CoreDocument.Signatures[i].SignerId,
                                       p'.CoreDocument.SigningRoot)) ]_vars

\* a second signature was appended to a version with a calculated signing
\* root, and the first one is still a signature over that root
C39_Witness ==
    /\ last.op = "AppendSignatures"
    /\ Len(p.CoreDocument.Signatures) >= 2
    /\ ByteLen(p.CoreDocument.SigningRoot) = idSize
    /\ CalculateSigningRoot(p.CoreDocument, PurchaseOrderDataTypeUrl).doc.SigningRoot
         = p.CoreDocument.SigningRoot
    /\ p.CoreDocument.Signatures[1]
         = SignMsg(p.CoreDocument.Signatures[1].SignerId, p.CoreDocument.SigningRoot)

\* C40: CalculateSigningRoot fails on a version whose data root is not 32
\* bytes long, CalculateDocumentRoot and CreateProofs fail on a version whose
\* signing root is not 32 bytes long, and a call of the three that fails
\* leaves the signing root and the document root of the version as they were.
C40_RootsInOrder ==
    [][ /\ (last'.op = "CalculateSigningRoot"
              /\ ByteLen(p.CoreDocument.DataRoot) # idSize)
            => last'.err # ""
        /\ (last'.op \in { "CalculateDocumentRoot", "CreateProofs" }
              /\ ByteLen(p.CoreDocument.SigningRoot) # idSize)
            => last'.err # ""
        /\ (last'.op \in { "CalculateSigningRoot", "CalculateDocumentRoot",
                           "CreateProofs" }
              /\ last'.err # "")
            => /\ p'.CoreDocument.SigningRoot = p.CoreDocument.SigningRoot
               /\ p'.CoreDocument.DocumentRoot = p.CoreDocument.DocumentRoot ]_vars

\* CalculateSigningRoot failed on a version without a data root that holds
\* a signing root and a document root from before
C40_Witness ==
    /\ last.op = "CalculateSigningRoot"
    /\ last.err # ""
    /\ p.CoreDocument.DataRoot = Nil
    /\ ByteLen(p.CoreDocument.SigningRoot) = idSize
    /\ ByteLen(p.CoreDocument.DocumentRoot) = idSize

====
